---- MODULE Spec2Model ----
(***************************************************************************)
(* A model of the ranking engine of backend/app/mcda_scoring.py, of the    *)
(* rate limiter of backend/app/rate_limit.py and of the cache of           *)
(* backend/app/cache.py.                                                   *)
(*                                                                         *)
(* Python values are tagged records:                                       *)
(*   None  [t |-> "none"]            str   [t |-> "str",  s |-> chars]     *)
(*   int   [t |-> "num", n |-> i]    bool  [t |-> "bool", b |-> BOOLEAN]   *)
(*   nan   [t |-> "nan"]             list  [t |-> "list", l |-> <<v..>>]   *)
(*   dict  [t |-> "dict", d |-> <<[k |-> key, v |-> value], ..>>]          *)
(* A Python str is a sequence of one-character strings; a dict is the      *)
(* sequence of its entries in insertion order (Python dicts are ordered).  *)
(* A raised exception is the value [t |-> "raise", e |-> name].            *)
(*                                                                         *)
(* Python floats are modelled in fixed point: a weight or score w is the   *)
(* integer w * Scale, products by VALUE_DECAY are truncated to 1/Scale.    *)
(***************************************************************************)
EXTENDS Integers, Sequences, FiniteSets, TLC

VARIABLES
    rp_data,        \* resolve_path: the data argument
    rp_path,        \* resolve_path: the path argument (a str value or None)
    rp_out,         \* resolve_path: what the call returned or raised
    rp_pc,          \* "idle", "call" before the call, "done" after it
    listings,       \* score_listings: the list argument, a sequence of object ids
    config,         \* score_listings: the config argument
    filters,        \* score_listings: the filters argument (a dict)
    selected_order, \* score_listings: the selected_order argument (a dict)
    section_order,  \* score_listings: the section_order argument (a list or None)
    heap,           \* the item records by object id: a sequence of dict values
    result,         \* what score_listings returned or raised
    pc,             \* "idle", "call" before the call, "done" after it
    bp_section_order,   \* _build_priority_spec: the section_order argument
    bp_selected_order,  \* _build_priority_spec: the selected_order argument
    bp_range_keys,      \* _build_priority_spec: the range_keys argument
    bp_out,             \* _build_priority_spec: the priority spec returned
    bp_pc,              \* "idle", "call" before the call, "done" after it
    now,                \* time.time(), in seconds
    rate_limiter,       \* the RateLimiter object, None if there is none
    rl_log,             \* the calls of RateLimiter.allow and what they returned
    response_cache,     \* the TTLCache object, None if there is none
    cache_log           \* what is known of the calls of TTLCache.get and TTLCache.set

vars == <<rp_data, rp_path, rp_out, rp_pc,
          listings, config, filters, selected_order, section_order, heap, result, pc,
          bp_section_order, bp_selected_order, bp_range_keys, bp_out, bp_pc,
          now, rate_limiter, rl_log, response_cache, cache_log>>

service_vars == <<now, rate_limiter, rl_log, response_cache, cache_log>>

bp_vars == <<bp_section_order, bp_selected_order, bp_range_keys, bp_out, bp_pc>>

rp_vars == <<rp_data, rp_path, rp_out, rp_pc>>

score_vars == <<listings, config, filters, selected_order, section_order, heap, result, pc>>

----------------------------------------------------------------------------
(* Constructors of Python values *)

NoneV == [t |-> "none"]

NaN == [t |-> "nan"]

\* an int beyond the largest float (above 1.8e308)
BigInt == [t |-> "bigint"]

Str(s) == [t |-> "str", s |-> s]

Num(n) == [t |-> "num", n |-> n]

Bool(b) == [t |-> "bool", b |-> b]

List(l) == [t |-> "list", l |-> l]

Dict(d) == [t |-> "dict", d |-> d]

Raise(e) == [t |-> "raise", e |-> e]

KV(k, v) == [k |-> k, v |-> v]

IsRaise(v) == v.t = "raise"

----------------------------------------------------------------------------
(* str methods *)

UpperChars == <<"A","B","C","D","E","F","G","H","I","J","K","L","M",
                "N","O","P","Q","R","S","T","U","V","W","X","Y","Z">>

LowerChars == <<"a","b","c","d","e","f","g","h","i","j","k","l","m",
                "n","o","p","q","r","s","t","u","v","w","x","y","z">>

DigitChars == <<"0","1","2","3","4","5","6","7","8","9">>

\* the characters str.strip() and the regex class \s remove (ASCII)
IsSpace(c) == c \in {" ", "\t", "\n", "\r", "\f"}

LowerChar(c) ==
    IF \E i \in 1..Len(UpperChars) : UpperChars[i] = c
    THEN LowerChars[CHOOSE i \in 1..Len(UpperChars) : UpperChars[i] = c]
    ELSE c

\* str.lower()
Lower(s) == [i \in 1..Len(s) |-> LowerChar(s[i])]

\* str.strip()
Strip(s) ==
    LET keep == {i \in 1..Len(s) : ~IsSpace(s[i])}
    IN  IF keep = {} THEN <<>>
        ELSE LET lo == CHOOSE i \in keep : \A j \in keep : i <= j
                 hi == CHOOSE i \in keep : \A j \in keep : i >= j
             IN  SubSeq(s, lo, hi)

IsDigit(c) == \E i \in 1..Len(DigitChars) : DigitChars[i] = c

DigitVal(c) == (CHOOSE i \in 1..Len(DigitChars) : DigitChars[i] = c) - 1

RECURSIVE NatOf(_)
\* the number a non-empty sequence of digits writes
NatOf(ds) ==
    IF Len(ds) = 1 THEN DigitVal(ds[1])
    ELSE 10 * NatOf(SubSeq(ds, 1, Len(ds) - 1)) + DigitVal(ds[Len(ds)])

RECURSIVE DigitsOf(_)
\* the decimal digits of a natural number
DigitsOf(n) ==
    IF n < 10 THEN <<DigitChars[n + 1]>>
    ELSE DigitsOf(n \div 10) \o <<DigitChars[(n % 10) + 1]>>

\* str(value) for the scalar values of the model
PyStr(v) ==
    CASE v.t = "str"  -> v.s
      [] v.t = "num"  -> IF v.n < 0 THEN <<"-">> \o DigitsOf(-v.n) ELSE DigitsOf(v.n)
      [] v.t = "bool" -> IF v.b THEN <<"T","r","u","e">> ELSE <<"F","a","l","s","e">>
      [] v.t = "nan"  -> <<"n","a","n">>
      [] v.t = "bigint" -> <<"1","0",".",".","0">>
      [] v.t = "none" -> <<"N","o","n","e">>
      [] v.t = "list" -> IF v.l = <<>> THEN <<"[","]">> ELSE <<"[",".",".","]">>
      [] v.t = "dict" -> IF v.d = <<>> THEN <<"{","}">> ELSE <<"{",".",".","}">>

normalize(value) ==
    IF value.t = "none" THEN <<>>
    ELSE Lower(Strip(PyStr(value)))

\* the elements of s at the positions keep, in order
SubSequence(s, keep) ==
    [k \in 1..Cardinality(keep) |->
        s[CHOOSE i \in keep : Cardinality({j \in keep : j <= i}) = k]]

\* str.split("."): the segments between the dots
SplitDots(s) ==
    LET dots == {i \in 1..Len(s) : s[i] = "."}
        Cut(k) == IF k = 0 THEN 0
                  ELSE IF k > Cardinality(dots) THEN Len(s) + 1
                  ELSE CHOOSE i \in dots : Cardinality({j \in dots : j <= i}) = k
    IN  [k \in 1..(Cardinality(dots) + 1) |-> SubSeq(s, Cut(k - 1) + 1, Cut(k) - 1)]

----------------------------------------------------------------------------
(* dict methods *)

HasKey(d, k) == \E i \in 1..Len(d) : d[i].k = k

\* dict.get(key)
Get(d, k) ==
    IF HasKey(d, k) THEN d[CHOOSE i \in 1..Len(d) : d[i].k = k].v ELSE NoneV

----------------------------------------------------------------------------
(* resolve_path *)

\* The pattern r"(.+)\\[(\\d+)\\]$" as the re module reads it: one or more
\* characters other than a newline, a backslash, one character of the class
\* [(\\d+)\\] = { ( \ d + ) }, then the end of the string or of its last line.
SegmentClass == {"(", "\\", "d", "+", ")"}

SegmentMatches(seg) ==
    LET n == Len(seg)
    IN  \/ /\ n >= 3
           /\ seg[n - 1] = "\\"
           /\ seg[n] \in SegmentClass
           /\ \A i \in 1..(n - 2) : seg[i] # "\n"
        \/ /\ n >= 4
           /\ seg[n] = "\n"
           /\ seg[n - 2] = "\\"
           /\ seg[n - 1] \in SegmentClass
           /\ \A i \in 1..(n - 3) : seg[i] # "\n"

RECURSIVE ResolveFrom(_, _, _)
\* the loop of resolve_path over segments[i..]
ResolveFrom(value, segments, i) ==
    IF i > Len(segments) THEN value
    ELSE IF value.t = "none" THEN NoneV
    ELSE IF value.t = "list" THEN
        \* the pattern has one group only: match.group(2) raises IndexError
        IF SegmentMatches(segments[i]) THEN Raise("IndexError") ELSE NoneV
    ELSE IF value.t = "dict" THEN
        IF SegmentMatches(segments[i]) THEN Raise("IndexError")
        ELSE ResolveFrom(Get(value.d, Str(segments[i])), segments, i + 1)
    ELSE NoneV

resolve_path(data, path) ==
    IF path.t = "none" \/ path.s = <<>> THEN NoneV
    ELSE ResolveFrom(data, SplitDots(path.s), 1)

----------------------------------------------------------------------------
(* The strings of the source *)

s_filters == <<"f","i","l","t","e","r","s">>

s_sections == <<"s","e","c","t","i","o","n","s">>

s_key == <<"k","e","y">>

s_type == <<"t","y","p","e">>

s_path == <<"p","a","t","h">>

s_min == <<"m","i","n">>

s_max == <<"m","a","x">>

s_range == <<"r","a","n","g","e">>

s_text == <<"t","e","x","t">>

s_boolean == <<"b","o","o","l","e","a","n">>

s_checkboxes == <<"c","h","e","c","k","b","o","x","e","s">>

s_select == <<"s","e","l","e","c","t">>

s_scalar == <<"s","c","a","l","a","r">>

s_label == <<"l","a","b","e","l">>

s_pricing_sources == <<"p","r","i","c","i","n","g","_","s","o","u","r","c","e","s">>

s_scan_required == <<"s","c","a","n","_","r","e","q","u","i","r","e","d">>

s_scan_required_for_current_reading == <<"s","c","a","n","_","r","e","q","u","i","r","e","d","_","f","o","r","_","c","u","r","r","e","n","t","_","r","e","a","d","i","n","g">>

s_mcda == <<"_","m","c","d","a">>

s_derived_score == <<"d","e","r","i","v","e","d","_","s","c","o","r","e">>

s_total_matches == <<"t","o","t","a","l","_","m","a","t","c","h","e","s">>

s_high_priority_matches == <<"h","i","g","h","_","p","r","i","o","r","i","t","y","_","m","a","t","c","h","e","s">>

s_range_matches == <<"r","a","n","g","e","_","m","a","t","c","h","e","s">>

s_total_selected_count == <<"t","o","t","a","l","_","s","e","l","e","c","t","e","d","_","c","o","u","n","t">>

s_index == <<"i","n","d","e","x">>

SEARCH_TERM_ITEM_PREFIX == <<"s","e","a","r","c","h","_","t","e","r","m","_","i","t","e","m",":">>

TEXT_SEARCH_FIELDS ==
    << <<"s","y","s","t","e","m","_","t","y","p","e">>,
       <<"s","c","a","n","n","e","r","_","r","e","a","d","e","r">>,
       <<"c","o","m","p","o","n","e","n","t","s","_","i","n","c","l","u","d","e","d",".","s","c","a","n","n","e","r","_","r","e","a","d","e","r">>,
       <<"p","h","o","n","e","_","m","o","d","e","l","s">>,
       <<"s","c","a","n","_","r","e","q","u","i","r","e","d">>,
       <<"s","c","a","n","_","r","e","q","u","i","r","e","d","_","f","o","r","_","c","u","r","r","e","n","t","_","r","e","a","d","i","n","g">>,
       <<"p","r","i","c","i","n","g","_","n","o","t","e","s">>,
       <<"i","n","s","u","r","a","n","c","e","_","n","o","t","e","s">>,
       <<"p","r","o","d","u","c","t","_","n","a","m","e">>,
       <<"n","o","t","e","s">> >>

----------------------------------------------------------------------------
(* Python's built-ins *)

\* bool(value), the truth value the operators "or", "not" and "if" use
Truthy(v) ==
    CASE v.t = "none" -> FALSE
      [] v.t = "str"  -> v.s # <<>>
      [] v.t = "num"  -> v.n # 0
      [] v.t = "bool" -> v.b
      [] v.t = "nan"  -> TRUE
      [] v.t = "bigint" -> TRUE
      [] v.t = "list" -> v.l # <<>>
      [] v.t = "dict" -> v.d # <<>>

\* a or b
Or(a, b) == IF Truthy(a) THEN a ELSE b

\* a or b, for two lists
OrSeq(a, b) == IF a # <<>> THEN a ELSE b

\* the elements a for loop over value visits; the model's inputs hold a list
\* wherever the source iterates
Elements(v) == IF v.t = "list" THEN v.l ELSE <<>>

\* d[key] = value: an existing key keeps its place
Put(d, k, v) ==
    IF HasKey(d, k)
    THEN [i \in 1..Len(d) |-> IF d[i].k = k THEN KV(k, v) ELSE d[i]]
    ELSE Append(d, KV(k, v))

\* str.startswith(prefix)
StartsWith(s, prefix) ==
    Len(s) >= Len(prefix) /\ SubSeq(s, 1, Len(prefix)) = prefix

\* needle in haystack, for two strs
Contains(haystack, needle) ==
    \E i \in 0..(Len(haystack) - Len(needle)) :
        SubSeq(haystack, i + 1, i + Len(needle)) = needle

RECURSIVE Join(_, _)
\* sep.join(parts)
Join(sep, parts) ==
    IF parts = <<>> THEN <<>>
    ELSE IF Len(parts) = 1 THEN parts[1]
    ELSE parts[1] \o sep \o Join(sep, Tail(parts))

\* the float an optionally signed run of digits, or nan, writes
FloatOfBody(body) ==
    LET signed == body # <<>> /\ body[1] \in {"+", "-"}
        digits == IF signed THEN Tail(body) ELSE body
    IN  IF digits # <<>> /\ \A i \in 1..Len(digits) : IsDigit(digits[i])
        THEN Num(IF signed /\ body[1] = "-" THEN -NatOf(digits) ELSE NatOf(digits))
        ELSE IF Lower(digits) = <<"n","a","n">> THEN NaN
        ELSE Raise("ValueError")

\* float(value) of a str: surrounding blanks dropped, then an optionally signed
\* run of digits, or nan; anything else is a ValueError. (The model's strings
\* hold no decimal point, exponent, underscore or "inf".)
FloatOfStr(s) == FloatOfBody(Strip(s))

\* float(value)
Float(v) ==
    CASE v.t = "num"  -> v
      [] v.t = "bool" -> Num(IF v.b THEN 1 ELSE 0)
      [] v.t = "nan"  -> NaN
      [] v.t = "bigint" -> Raise("OverflowError")
      [] v.t = "str"  -> FloatOfStr(v.s)
      [] OTHER        -> Raise("TypeError")

\* float(value) if isinstance(value, (int, float)) else None; bool is an int
FloatIfNumber(v) ==
    IF v.t = "bool" THEN Num(IF v.b THEN 1 ELSE 0)
    ELSE IF v.t \in {"num", "nan"} THEN v
    ELSE IF v.t = "bigint" THEN Raise("OverflowError")
    ELSE NoneV

\* a comparison that is also true of two equal floats
FloatLess_OrEqual(a, b) == a.t = "num" /\ b.t = "num" /\ a.n <= b.n

\* a < b for two floats: every comparison with nan is false
FloatLess(a, b) == a.t = "num" /\ b.t = "num" /\ a.n < b.n

----------------------------------------------------------------------------
(* Weights. A float w is the integer w * Scale. *)

Scale == 1000000

SECTION_DOMINANCE_BASE == 5

\* VALUE_DECAY = 0.65, in hundredths
VALUE_DECAY_PERCENT == 65

\* HIGH_PRIORITY_VALUE_WEIGHT_THRESHOLD = 0.5, in hundredths
HIGH_PRIORITY_VALUE_WEIGHT_THRESHOLD_PERCENT == 50

Max(a, b) == IF a >= b THEN a ELSE b

\* the product of two floats
FloatMul(a, b) == (a \div Scale) * b + ((a % Scale) * b) \div Scale

\* a section weight that does not grow with the section's priority
canonical_section_weight_Flat(total_sections, index) == Scale

canonical_section_weight(total_sections, index) ==
    LET dominance_power == Max(0, total_sections - index - 1)
    IN  (SECTION_DOMINANCE_BASE ^ dominance_power) * Scale

\* a value weight that does not decay with the rank
canonical_value_weight_NoDecay(rank) == Scale

RECURSIVE canonical_value_weight(_)
canonical_value_weight(rank) ==
    IF rank = 0 THEN Scale
    ELSE (canonical_value_weight(rank - 1) * VALUE_DECAY_PERCENT) \div 100

\* a threshold that only the weight of the first pick reaches
IsHighPriorityWeight_FirstOnly(value_weight) == value_weight >= Scale

\* value_weight >= HIGH_PRIORITY_VALUE_WEIGHT_THRESHOLD
IsHighPriorityWeight(value_weight) ==
    value_weight * 100 >= HIGH_PRIORITY_VALUE_WEIGHT_THRESHOLD_PERCENT * Scale

----------------------------------------------------------------------------
(* The filter map, the default section order, the range selections *)

\* config.get("filters") or []
ConfigFilters(cfg) == Elements(Or(Get(cfg.d, Str(s_filters)), List(<<>>)))

RECURSIVE FilterMapFrom(_, _)
FilterMapFrom(entries, acc) ==
    IF entries = <<>> THEN acc
    ELSE LET entry == Head(entries)
         IN  FilterMapFrom(Tail(entries),
                 IF entry.t = "dict" THEN Put(acc, Get(entry.d, Str(s_key)), entry)
                 ELSE acc)

\* the dict of key -> filter spec, in the order the keys first appear
_build_filter_map(cfg) == FilterMapFrom(ConfigFilters(cfg), <<>>)

RECURSIVE FilterKeysFrom(_)
FilterKeysFrom(entries) ==
    IF entries = <<>> THEN <<>>
    ELSE LET entry == Head(entries)
         IN  (IF entry.t = "dict" /\ Truthy(Get(entry.d, Str(s_key)))
              THEN <<Get(entry.d, Str(s_key))>> ELSE <<>>)
             \o FilterKeysFrom(Tail(entries))

\* the keys of a section taken whether or not a filter declares them
KeysAmong_Undeclared(keys, filter_keys) == keys

RECURSIVE KeysAmong(_, _)
\* [key for key in keys if key in filter_keys]
KeysAmong(keys, filter_keys) ==
    IF keys = <<>> THEN <<>>
    ELSE (IF \E i \in 1..Len(filter_keys) : filter_keys[i] = Head(keys)
          THEN <<Head(keys)>> ELSE <<>>)
         \o KeysAmong(Tail(keys), filter_keys)

RECURSIVE SectionKeysFrom(_, _)
SectionKeysFrom(sections, filter_keys) ==
    IF sections = <<>> THEN <<>>
    ELSE LET section == Head(sections)
         IN  (IF section.t = "dict"
              THEN KeysAmong(Elements(Or(Get(section.d, Str(s_filters)), List(<<>>))),
                             filter_keys)
              ELSE <<>>)
             \o SectionKeysFrom(Tail(sections), filter_keys)

\* an order that leaves the sections of the config aside
SectionOrderAmong_Declared(cfg, filter_keys) == filter_keys

\* section_keys or filter_keys, for the filter keys of the config
SectionOrderAmong(cfg, filter_keys) ==
    OrSeq(SectionKeysFrom(Elements(Or(Get(cfg.d, Str(s_sections)), List(<<>>))),
                          filter_keys),
          filter_keys)

_default_section_order(cfg) == SectionOrderAmong(cfg, FilterKeysFrom(ConfigFilters(cfg)))

RECURSIVE RangeFiltersFrom(_, _, _, _)
RangeFiltersFrom(flt, filter_map, i, selections) ==
    IF i > Len(filter_map) THEN selections
    ELSE LET key        == filter_map[i].k
             spec       == filter_map[i].v
             raw        == Get(flt.d, key)
             min_parsed == FloatIfNumber(Get(raw.d, Str(s_min)))
             max_parsed == FloatIfNumber(Get(raw.d, Str(s_max)))
         IN  RangeFiltersFrom(flt, filter_map, i + 1,
                 IF Get(spec.d, Str(s_type)) # Str(s_range) THEN selections
                 ELSE IF raw.t # "dict" THEN selections
                 ELSE IF min_parsed.t = "none" /\ max_parsed.t = "none" THEN selections
                 ELSE Put(selections, key,
                          Dict(<<KV(Str(s_min), min_parsed), KV(Str(s_max), max_parsed)>>)))

\* the dict of key -> {"min": .., "max": ..} of the range filters with a bound set
_extract_range_filters(flt, filter_map) == RangeFiltersFrom(flt, filter_map, 1, <<>>)

\* float(min_value) or float(max_value) raises for this value of a filter
RangeBoundRaises(raw) ==
    /\ raw.t = "dict"
    /\ \/ IsRaise(FloatIfNumber(Get(raw.d, Str(s_min))))
       \/ IsRaise(FloatIfNumber(Get(raw.d, Str(s_max))))

\* the exception _extract_range_filters raises, None if it returns
RangeFiltersRaise(flt, filter_map) ==
    IF \E i \in 1..Len(filter_map) :
           /\ Get(filter_map[i].v.d, Str(s_type)) = Str(s_range)
           /\ RangeBoundRaises(Get(flt.d, filter_map[i].k))
    THEN Raise("OverflowError")
    ELSE NoneV

----------------------------------------------------------------------------
(* The priority spec *)

\* f"{section_key}:{value}"
Token(section_key, value) == PyStr(section_key) \o <<":">> \o value

\* a pass that keeps a value that was already seen
AppendNew_KeepsRepeats(normalized_items, normalized_item) ==
    IF normalized_item = <<>> THEN normalized_items
    ELSE Append(normalized_items, normalized_item)

\* normalized_items after one pass of the loop that fills it
AppendNew(normalized_items, normalized_item) ==
    IF \/ normalized_item = <<>>
       \/ \E i \in 1..Len(normalized_items) : normalized_items[i] = normalized_item
    THEN normalized_items
    ELSE Append(normalized_items, normalized_item)

RECURSIVE NormalizedItems(_, _)
\* the normalized values of a section in first-seen order, each once
NormalizedItems(items, normalized_items) ==
    IF items = <<>> THEN normalized_items
    ELSE NormalizedItems(Tail(items), AppendNew(normalized_items, normalize(Head(items))))

EmptyPrioritySpec ==
    [ sections             |-> <<>>,
      selected_values      |-> <<>>,
      token_weights        |-> <<>>,
      section_weights      |-> <<>>,
      selected_tokens      |-> {},
      high_priority_tokens |-> {},
      total_selected_count |-> 0 ]

\* a pass that gives every token of a section the section's weight
AddToken_SectionOnly(ps, token, section_weight, value_weight) ==
    [ps EXCEPT
        !.token_weights = Put(@, token, section_weight),
        !.selected_tokens = @ \cup {token},
        !.high_priority_tokens =
            IF IsHighPriorityWeight(value_weight) THEN @ \cup {token} ELSE @]

\* the priority spec after one pass of the loop over the normalized items
AddToken(ps, token, section_weight, value_weight) ==
    [ps EXCEPT
        !.token_weights = Put(@, token, FloatMul(section_weight, value_weight)),
        !.selected_tokens = @ \cup {token},
        !.high_priority_tokens =
            IF IsHighPriorityWeight(value_weight) THEN @ \cup {token} ELSE @]

RECURSIVE AddTokens(_, _, _, _, _)
\* the loop over enumerate(normalized_items), from value_index on
AddTokens(ps, section_key, section_weight, normalized_items, value_index) ==
    IF value_index >= Len(normalized_items) THEN ps
    ELSE AddTokens(
             AddToken(ps, Token(section_key, normalized_items[value_index + 1]),
                      section_weight, canonical_value_weight(value_index)),
             section_key, section_weight, normalized_items, value_index + 1)

\* a section entered with a count of 1 whatever the number of its values
WithSection_CountsSections(ps, section_key, section_weight, normalized_items) ==
    AddTokens(
        [ps EXCEPT
            !.sections = Append(@, section_key),
            !.selected_values =
                IF normalized_items # <<>>
                THEN Put(@, section_key, normalized_items) ELSE @,
            !.total_selected_count = @ + 1,
            !.section_weights = Put(@, section_key, section_weight)],
        section_key, section_weight, normalized_items, 0)

\* the priority spec with a section entered: its key, values, count and weights
WithSection(ps, section_key, section_weight, normalized_items) ==
    AddTokens(
        [ps EXCEPT
            !.sections = Append(@, section_key),
            !.selected_values =
                IF normalized_items # <<>>
                THEN Put(@, section_key, normalized_items) ELSE @,
            !.total_selected_count =
                IF normalized_items # <<>>
                THEN @ + Len(normalized_items) ELSE @ + 1,
            !.section_weights = Put(@, section_key, section_weight)],
        section_key, section_weight, normalized_items, 0)

\* a pass that does not skip a section without values and without a range
AddActiveSection_KeepsInactive(ps, section_key, section_weight, normalized_items, has_range) ==
    WithSection(ps, section_key, section_weight, normalized_items)

\* the pass from "if not normalized_items and not has_range" on
AddActiveSection(ps, section_key, section_weight, normalized_items, has_range) ==
    IF normalized_items = <<>> /\ ~has_range THEN ps
    ELSE WithSection(ps, section_key, section_weight, normalized_items)

\* selected_order.get(section_key) or selected_order.get(normalized_section) or []
SelectedItems(selected_order_, section_key, normalized_section) ==
    Or(Or(Get(selected_order_.d, section_key),
          Get(selected_order_.d, Str(normalized_section))),
       List(<<>>))

\* a pass that does not skip a section whose key normalizes to ""
AddNormalizedSection_KeepsBlankKey(ps, section_key, normalized_section, section_weight, selected_order_, range_keys_set) ==
    AddActiveSection(
        ps, section_key, section_weight,
        NormalizedItems(
            Elements(SelectedItems(selected_order_, section_key, normalized_section)),
            <<>>),
        section_key \in range_keys_set)

\* the pass from "if not normalized_section" on
AddNormalizedSection(ps, section_key, normalized_section, section_weight, selected_order_, range_keys_set) ==
    IF normalized_section = <<>> THEN ps
    ELSE AddActiveSection(
             ps, section_key, section_weight,
             NormalizedItems(
                 Elements(SelectedItems(selected_order_, section_key, normalized_section)),
                 <<>>),
             section_key \in range_keys_set)

\* a pass that takes the section's position among the active sections
AddSection_ActiveIndex(ps, section_order_, selected_order_, range_keys_set, index) ==
    AddNormalizedSection(ps, section_order_[index + 1],
                         normalize(section_order_[index + 1]),
                         canonical_section_weight(Len(section_order_), Len(ps.sections)),
                         selected_order_, range_keys_set)

\* one pass of the loop over enumerate(section_order)
AddSection(ps, section_order_, selected_order_, range_keys_set, index) ==
    AddNormalizedSection(ps, section_order_[index + 1],
                         normalize(section_order_[index + 1]),
                         canonical_section_weight(Len(section_order_), index),
                         selected_order_, range_keys_set)

RECURSIVE PrioritySpecFrom(_, _, _, _, _)
PrioritySpecFrom(ps, section_order_, selected_order_, range_keys_set, index) ==
    IF index >= Len(section_order_) THEN ps
    ELSE PrioritySpecFrom(
             AddSection(ps, section_order_, selected_order_, range_keys_set, index),
             section_order_, selected_order_, range_keys_set, index + 1)

_build_priority_spec(section_order_, selected_order_, range_keys) ==
    PrioritySpecFrom(EmptyPrioritySpec, section_order_, selected_order_,
                     { range_keys[i] : i \in 1..Len(range_keys) }, 0)

----------------------------------------------------------------------------
(* Tokens of an item *)

_filter_is_text(section_key, spec) ==
    \/ StartsWith(section_key.s, SEARCH_TERM_ITEM_PREFIX)
    \/ (Truthy(spec) /\ Get(spec.d, Str(s_type)) = Str(s_text))

\* [f"{section_key}:{normalized}"] if normalized else []
TokenIfAny(section_key, normalized) ==
    IF normalized # <<>> THEN <<Token(section_key, normalized)>> ELSE <<>>

RECURSIVE TokensOfList(_, _)
\* [f"{section_key}:{normalize(entry)}" for entry in value if normalize(entry)]
TokensOfList(section_key, entries) ==
    IF entries = <<>> THEN <<>>
    ELSE TokenIfAny(section_key, normalize(Head(entries)))
         \o TokensOfList(section_key, Tail(entries))

\* a list of tokens
Tokens(l) == [t |-> "tokens", l |-> l]

\* the tokens of a list, entry by entry, or of a scalar
ValueTokens(section_key, value) ==
    IF value.t = "list" THEN Tokens(TokensOfList(section_key, value.l))
    ELSE Tokens(TokenIfAny(section_key, normalize(value)))

\* _extract_tokens from the first test of filter_type on
TokensOfValue(section_key, filter_type, value) ==
    IF IsRaise(value) THEN value
    ELSE IF filter_type \in {Str(s_checkboxes), Str(s_select), Str(s_scalar)}
    THEN ValueTokens(section_key, value)
    ELSE IF filter_type = Str(s_boolean) THEN
        IF value.t = "none" THEN Tokens(<<>>)
        ELSE Tokens(<<Token(section_key,
                            IF Truthy(value) THEN <<"t","r","u","e">>
                            ELSE <<"f","a","l","s","e">>)>>)
    ELSE ValueTokens(section_key, value)

\* the list of tokens, or the exception resolve_path raised
_extract_tokens(item, section_key, spec) ==
    IF ~Truthy(spec) \/ ~Truthy(Get(spec.d, Str(s_path))) THEN Tokens(<<>>)
    ELSE TokensOfValue(section_key, Get(spec.d, Str(s_type)),
                       resolve_path(item, Get(spec.d, Str(s_path))))

----------------------------------------------------------------------------
(* The text haystack *)

RECURSIVE _push_value(_, _)
RECURSIVE PushAll(_, _)
\* bucket after _push_value(bucket, value)
_push_value(bucket, value) ==
    IF value.t = "none" THEN bucket
    ELSE IF value.t = "list" THEN PushAll(bucket, value.l)
    ELSE IF value.t = "dict"
         THEN PushAll(bucket, [i \in 1..Len(value.d) |-> value.d[i].v])
    ELSE Append(bucket, PyStr(value))

PushAll(bucket, entries) ==
    IF entries = <<>> THEN bucket
    ELSE PushAll(_push_value(bucket, Head(entries)), Tail(entries))

\* re.sub(r"<[^>]*>", " ", value): a tag runs from the first "<" after the
\* end of the tag before it to the next ">"; it is replaced by one blank
SubTags(value) ==
    LET Open(o, i) == value[o] = "<" /\ \A k \in o..(i - 1) : value[k] # ">"
        InTag(i)   == /\ \E c \in i..Len(value) : value[c] = ">"
                      /\ \E o \in 1..i : Open(o, i)
        Starts(i)  == InTag(i) /\ value[i] = "<" /\ ~\E o \in 1..(i - 1) : Open(o, i)
        keep       == {i \in 1..Len(value) : ~InTag(i) \/ Starts(i)}
    IN  SubSequence([i \in 1..Len(value) |-> IF InTag(i) THEN " " ELSE value[i]], keep)

\* re.sub(r"\s+", " ", value): a run of blanks becomes one blank
SubSpaces(value) ==
    LET keep == {i \in 1..Len(value) :
                    ~IsSpace(value[i]) \/ i = 1 \/ ~IsSpace(value[i - 1])}
    IN  SubSequence([i \in 1..Len(value) |-> IF IsSpace(value[i]) THEN " " ELSE value[i]],
                    keep)

strip_html(value) == Strip(SubSpaces(SubTags(value)))

RECURSIVE PushFields(_, _, _)
\* the loop over TEXT_SEARCH_FIELDS, whose paths hold no backslash: resolve_path
\* raises on none of them
PushFields(parts, item, i) ==
    IF i > Len(TEXT_SEARCH_FIELDS) THEN parts
    ELSE PushFields(_push_value(parts, resolve_path(item, Str(TEXT_SEARCH_FIELDS[i]))),
                    item, i + 1)

RECURSIVE PushLabels(_, _)
PushLabels(parts, entries) ==
    IF entries = <<>> THEN parts
    ELSE PushLabels(
             IF Head(entries).t = "dict"
             THEN _push_value(parts, Get(Head(entries).d, Str(s_label))) ELSE parts,
             Tail(entries))

no_scanning == <<"n","o"," ","s","c","a","n","n","i","n","g">>

scan_needed == <<"s","c","a","n"," ","r","e","q","u","i","r","e","d">>

\* parts after the block on pricing_sources
PushPricingSources(parts, pricing_sources) ==
    IF pricing_sources.t = "list" THEN PushLabels(parts, pricing_sources.l) ELSE parts

\* parts after the two tests of normalize(scan_required)
PushScanText(parts, normalized) ==
    parts
    \o (IF normalized = <<"n","o">> THEN <<no_scanning>> ELSE <<>>)
    \o (IF normalized = <<"y","e","s">> THEN <<scan_needed>> ELSE <<>>)

\* parts after the block on scan_required
PushScanRequired(parts, scan_required) ==
    IF scan_required.t = "str" THEN PushScanText(parts, normalize(scan_required))
    ELSE IF scan_required.t = "bool"
    THEN Append(parts, IF scan_required.b THEN scan_needed ELSE no_scanning)
    ELSE parts

\* parts after the block on scan_required_for_current_reading
PushScanRequiredForReading(parts, scan_required_for_reading) ==
    IF scan_required_for_reading.t = "bool"
    THEN Append(parts, IF scan_required_for_reading.b THEN scan_needed ELSE no_scanning)
    ELSE parts

build_text_search_haystack(item) ==
    normalize(Str(strip_html(Join(<<" ">>,
        PushScanRequiredForReading(
            PushScanRequired(
                PushPricingSources(PushFields(<<>>, item, 1),
                                   resolve_path(item, Str(s_pricing_sources))),
                resolve_path(item, Str(s_scan_required))),
            resolve_path(item, Str(s_scan_required_for_current_reading)))))))

----------------------------------------------------------------------------
(* score_listings *)

\* d.get(key, 0.0) for a dict of weights
WeightOf(d, k) == IF HasKey(d, k) THEN Get(d, k) ELSE 0

RECURSIVE SumWeights(_, _)
\* the sum of token_weights.get(token, 0.0) over a set of tokens. (An integer
\* sum does not depend on the order; the float sum of the source is taken in
\* the set's iteration order, which the str hash seed of the process fixes.)
SumWeights(tokens, token_weights) ==
    IF tokens = {} THEN 0
    ELSE LET token == CHOOSE x \in tokens : TRUE
         IN  WeightOf(token_weights, token) + SumWeights(tokens \ {token}, token_weights)

\* the first exception among the token lists, or the set of all their tokens
UnionOrRaise(lists) ==
    IF \E i \in 1..Len(lists) : IsRaise(lists[i])
    THEN lists[CHOOSE i \in 1..Len(lists) :
                   IsRaise(lists[i]) /\ \A j \in 1..(i - 1) : ~IsRaise(lists[j])]
    ELSE Tokens(UNION { { lists[i].l[j] : j \in 1..Len(lists[i].l) } :
                        i \in 1..Len(lists) })

\* the tokens of the structured sections: a set, or the exception raised
StructuredTokens(item, priority_sections) ==
    UnionOrRaise([i \in 1..Len(priority_sections) |->
                     _extract_tokens(item, priority_sections[i].key,
                                     priority_sections[i].spec)])

\* selected_values.get(section_key) or []
SelectedTerms(selected_values, section_key) ==
    IF HasKey(selected_values, section_key) THEN Get(selected_values, section_key)
    ELSE <<>>

\* the tokens of the selected terms of a search section the haystack contains
TermTokens(haystack, section_key, terms) ==
    { Token(section_key, terms[j]) :
      j \in { n \in 1..Len(terms) : terms[n] # <<>> /\ Contains(haystack, terms[n]) } }

\* the tokens the search sections add to an item of this haystack
HaystackTokens(haystack, priority_search_sections, selected_values) ==
    UNION { TermTokens(haystack, priority_search_sections[i],
                       SelectedTerms(selected_values, priority_search_sections[i])) :
            i \in 1..Len(priority_search_sections) }

\* the tokens the search sections add for an item
SearchTokens(item, priority_search_sections, selected_values) ==
    IF priority_search_sections = <<>> THEN {}
    ELSE HaystackTokens(build_text_search_haystack(item), priority_search_sections,
                        selected_values)

\* a range match that does not count as a high priority match
CountRange_NotHighPriority(acc, section_weights, section_key) ==
    [acc EXCEPT
        !.total_matches = @ + 1,
        !.range_matches = @ + 1,
        !.derived_score = @ + WeightOf(section_weights, section_key)]

\* the counters after a value within the range of section_key
CountRange(acc, section_weights, section_key) ==
    [acc EXCEPT
        !.total_matches = @ + 1,
        !.high_priority_matches = @ + 1,
        !.range_matches = @ + 1,
        !.derived_score = @ + WeightOf(section_weights, section_key)]

\* what one range selection comes to for an item: the loop continues, the
\* value is within the range, or an exception is raised
Continue == [t |-> "continue"]

Match == [t |-> "match"]

RangeNumeric(numeric_value, min_value, max_value) ==
    IF IsRaise(numeric_value) THEN
        \* except (TypeError, ValueError): continue
        IF numeric_value.e \in {"TypeError", "ValueError"} THEN Continue
        ELSE numeric_value
    ELSE IF min_value.t # "none" /\ FloatLess(numeric_value, min_value) THEN Continue
    ELSE IF max_value.t # "none" /\ FloatLess(max_value, numeric_value) THEN Continue
    ELSE Match

RangeRaw(raw_value, range_spec) ==
    IF IsRaise(raw_value) THEN raw_value
    ELSE RangeNumeric(Float(raw_value), Get(range_spec.d, Str(s_min)),
                      Get(range_spec.d, Str(s_max)))

RangeEntry(item, spec, range_spec) ==
    IF ~Truthy(spec) \/ ~Truthy(Get(spec.d, Str(s_path))) THEN Continue
    ELSE RangeRaw(resolve_path(item, Get(spec.d, Str(s_path))), range_spec)

RECURSIVE RangeLoop(_, _, _, _)
\* the loop over range_selections.items() once the outcome of entry i is known
RangeStep(acc, item, ctx, i, outcome) ==
    IF outcome.t = "continue" THEN RangeLoop(acc, item, ctx, i + 1)
    ELSE IF outcome.t = "match"
    THEN RangeLoop(CountRange(acc, ctx.priority_spec.section_weights,
                              ctx.range_selections[i].k),
                   item, ctx, i + 1)
    ELSE outcome

\* the loop over range_selections.items(), from entry i on; the counters so
\* far are in acc. The result is the counters, or the exception raised.
RangeLoop(acc, item, ctx, i) ==
    IF i > Len(ctx.range_selections) THEN acc
    ELSE RangeStep(acc, item, ctx, i,
                   RangeEntry(item, Get(ctx.filter_map, ctx.range_selections[i].k),
                              ctx.range_selections[i].v))

\* counters that take every matched token for a high priority one
TokenScore_AllHighPriority(matched, priority_spec) ==
    [ t |-> "score",
      derived_score         |-> SumWeights(matched, priority_spec.token_weights),
      total_matches         |-> Cardinality(matched),
      high_priority_matches |-> Cardinality(matched),
      range_matches         |-> 0 ]

\* the counters of the matched tokens, before the range loop
TokenScore(matched, priority_spec) ==
    [ t |-> "score",
      derived_score         |-> SumWeights(matched, priority_spec.token_weights),
      total_matches         |-> Cardinality(matched),
      high_priority_matches |-> Cardinality(matched \cap priority_spec.high_priority_tokens),
      range_matches         |-> 0 ]

\* the body of the loop from the search sections on
ScoreTokens(item, ctx, structured) ==
    IF IsRaise(structured) THEN structured
    ELSE RangeLoop(
             TokenScore((structured.l
                         \cup SearchTokens(item, ctx.priority_search_sections,
                                           ctx.priority_spec.selected_values))
                        \cap ctx.priority_spec.selected_tokens,
                        ctx.priority_spec),
             item, ctx, 1)

\* the body of the loop over the listings up to the copy: the counters of one
\* item, or the exception raised
ScoreItem(item, ctx) ==
    ScoreTokens(item, ctx, StructuredTokens(item, ctx.priority_sections))

\* the item itself instead of a copy of it
dict_copy_Alias(h, id) == [heap |-> h, id |-> id]

\* dict(item): a new object with the entries of the object id
dict_copy(h, id) == [heap |-> Append(h, h[id]), id |-> Len(h) + 1]

\* a block whose index counts the items from 1
McdaBlock_IndexFromOne(score, total_selected_count, index) ==
    Dict(<< KV(Str(s_derived_score), Num(score.derived_score)),
            KV(Str(s_total_matches), Num(score.total_matches)),
            KV(Str(s_high_priority_matches), Num(score.high_priority_matches)),
            KV(Str(s_range_matches), Num(score.range_matches)),
            KV(Str(s_total_selected_count), Num(total_selected_count)),
            KV(Str(s_index), Num(index + 1)) >>)

\* the _mcda block of an item
McdaBlock(score, total_selected_count, index) ==
    Dict(<< KV(Str(s_derived_score), Num(score.derived_score)),
            KV(Str(s_total_matches), Num(score.total_matches)),
            KV(Str(s_high_priority_matches), Num(score.high_priority_matches)),
            KV(Str(s_range_matches), Num(score.range_matches)),
            KV(Str(s_total_selected_count), Num(total_selected_count)),
            KV(Str(s_index), Num(index)) >>)

\* the entry of the scored list for a copy and its counters
ScoredEntry(id, score) ==
    << id, score.derived_score, score.total_matches,
       score.high_priority_matches, score.range_matches >>

\* the heap with the _mcda block put on the copy
Annotate(copy, block) ==
    [copy.heap EXCEPT ![copy.id] = Dict(Put(@.d, Str(s_mcda), block))]

RECURSIVE ScoreLoop(_, _, _, _)
\* the loop over enumerate(listings) once the counters of the item are known
ScoreStep(h, scored, ctx, index, score) ==
    IF IsRaise(score) THEN [heap |-> h, scored |-> scored, exc |-> score]
    ELSE ScoreLoop(
             Annotate(dict_copy(h, ctx.listings[index + 1]),
                      McdaBlock(score, ctx.priority_spec.total_selected_count, index)),
             Append(scored, ScoredEntry(dict_copy(h, ctx.listings[index + 1]).id, score)),
             ctx, index + 1)

\* the loop over enumerate(listings), from index on: the heap and the scored
\* list so far, and the exception that ended the loop, if any
ScoreLoop(h, scored, ctx, index) ==
    IF index >= Len(ctx.listings) THEN [heap |-> h, scored |-> scored, exc |-> NoneV]
    ELSE ScoreStep(h, scored, ctx, index, ScoreItem(h[ctx.listings[index + 1]], ctx))

\* entry[0]["_mcda"]["index"]
McdaIndex(h, entry) == Get(Get(h[entry[1]].d, Str(s_mcda)).d, Str(s_index)).n

\* a sort key whose ties go to the later item
SortKeyLess_TiesToLater(h, a, b) ==
    \/ a[2] > b[2]
    \/ (a[2] = b[2] /\ McdaIndex(h, a) > McdaIndex(h, b))

\* the sort key (-entry[1], entry[0]["_mcda"]["index"]) of a is below that of b
SortKeyLess(h, a, b) ==
    \/ a[2] > b[2]
    \/ (a[2] = b[2] /\ McdaIndex(h, a) < McdaIndex(h, b))

\* entry put into a list after its first n entries
InsertAfter(sorted, entry, n) ==
    SubSeq(sorted, 1, n) \o <<entry>> \o SubSeq(sorted, n + 1, Len(sorted))

\* the greatest element of a set of positions, 0 if there is none
LastOf(positions) ==
    IF positions = {} THEN 0
    ELSE CHOOSE i \in positions : \A j \in positions : j <= i

\* entry put into a sorted list after every entry whose key is not above its own
InsertSorted(h, sorted, entry) ==
    InsertAfter(sorted, entry,
                LastOf({ i \in 1..Len(sorted) : ~SortKeyLess(h, entry, sorted[i]) }))

RECURSIVE SortScored(_, _, _)
\* list.sort(key=...): a stable sort, here by insertion from entry i on
SortScored(h, scored, sorted) ==
    IF scored = <<>> THEN sorted
    ELSE SortScored(h, Tail(scored), InsertSorted(h, sorted, Head(scored)))

\* a partition that puts every section on both sides
SectionsWhere_Both(keys, filter_map, text) == keys

RECURSIVE SectionsWhere(_, _, _)
\* the keys of the priority spec that are (text = TRUE) or are not text sections
SectionsWhere(keys, filter_map, text) ==
    IF keys = <<>> THEN <<>>
    ELSE (IF _filter_is_text(Head(keys), Get(filter_map, Head(keys))) = text
          THEN <<Head(keys)>> ELSE <<>>)
         \o SectionsWhere(Tail(keys), filter_map, text)

\* what the call returns: the items in their final order with the count
Return(items, count) == [t |-> "return", items |-> items, count |-> count]

\* the scored list after the sort, which runs only if something is selected
SortedIfSelected(h, scored, total_selected_count) ==
    IF total_selected_count > 0 THEN SortScored(h, scored, <<>>) ELSE scored

\* the end of the call: the exception of the loop, or the sorted items
ScoreReturn(loop, total_selected_count) ==
    IF IsRaise(loop.exc) THEN [heap |-> loop.heap, ret |-> loop.exc]
    ELSE [ heap |-> loop.heap,
           ret  |-> Return(
                        [i \in 1..Len(loop.scored) |->
                            SortedIfSelected(loop.heap, loop.scored,
                                             total_selected_count)[i][1]],
                        total_selected_count) ]

\* [(key, filter_map.get(key)) for key in keys]
PrioritySections(keys, filter_map) ==
    [i \in 1..Len(keys) |-> [key |-> keys[i], spec |-> Get(filter_map, keys[i])]]

\* the values the loop over the listings reads
ScoreContext(listings_, filter_map, range_selections, priority_spec) ==
    [ listings          |-> listings_,
      filter_map        |-> filter_map,
      range_selections  |-> range_selections,
      priority_spec     |-> priority_spec,
      priority_sections |->
          PrioritySections(SectionsWhere(priority_spec.sections, filter_map, FALSE),
                           filter_map),
      priority_search_sections |->
          SectionsWhere(priority_spec.sections, filter_map, TRUE) ]

\* the call once the priority spec is built
ScoreBySpec(h, listings_, filter_map, range_selections, priority_spec) ==
    ScoreReturn(ScoreLoop(h, <<>>,
                          ScoreContext(listings_, filter_map, range_selections,
                                       priority_spec),
                          0),
                priority_spec.total_selected_count)

\* the call once the range selections are known
ScoreByRanges(h, listings_, filter_map, range_selections, section_keys, selected_order_) ==
    ScoreBySpec(h, listings_, filter_map, range_selections,
                _build_priority_spec(
                    section_keys, selected_order_,
                    [i \in 1..Len(range_selections) |-> range_selections[i].k]))

\* the call once the filter map is built
ScoreByFilterMap(h, listings_, filter_map, filters_, section_keys, selected_order_) ==
    IF IsRaise(RangeFiltersRaise(filters_, filter_map))
    THEN [heap |-> h, ret |-> RangeFiltersRaise(filters_, filter_map)]
    ELSE ScoreByRanges(h, listings_, filter_map,
                       _extract_range_filters(filters_, filter_map),
                       section_keys, selected_order_)

\* the heap after the call and what it returns: the scored list (object ids)
\* with total_selected_count, or the exception raised
score_listings(h, listings_, config_, filters_, selected_order_, section_order_) ==
    ScoreByFilterMap(h, listings_, _build_filter_map(config_), filters_,
                     Elements(Or(section_order_, List(_default_section_order(config_)))),
                     selected_order_)

----------------------------------------------------------------------------
(* RateLimiter *)

\* RateBucket(count=..., reset_at=...)
RateBucket(count, reset_at) == [count |-> count, reset_at |-> reset_at]

\* RateLimiter(max_requests, window_seconds): _buckets is a dict, key -> bucket
RateLimiter(max_requests, window_seconds) ==
    [max_requests |-> max_requests, window_seconds |-> window_seconds, _buckets |-> <<>>]

\* a bucket that is kept after its reset_at
CurrentBucket_NeverExpires(buckets, key, now_, window_seconds) ==
    IF ~HasKey(buckets, key) THEN RateBucket(0, now_ + window_seconds)
    ELSE Get(buckets, key)

\* the bucket the call counts in: the stored one, or a new one if there is
\* none or now >= bucket.reset_at
CurrentBucket(buckets, key, now_, window_seconds) ==
    IF ~HasKey(buckets, key) \/ now_ >= Get(buckets, key).reset_at
    THEN RateBucket(0, now_ + window_seconds)
    ELSE Get(buckets, key)

\* the call from "if bucket.count >= self.max_requests" on: the object after
\* the call and the pair it returns
AllowInBucket(self, key, now_, bucket) ==
    IF bucket.count >= self.max_requests
    THEN [ self |-> [self EXCEPT !._buckets = Put(@, key, bucket)],
           ret  |-> <<FALSE, Max(0, bucket.reset_at - now_)>> ]
    ELSE [ self |-> [self EXCEPT !._buckets =
                        Put(@, key, RateBucket(bucket.count + 1, bucket.reset_at))],
           ret  |-> <<TRUE, Max(0, bucket.reset_at - now_)>> ]

\* RateLimiter.allow(key) at the time now_
allow(self, key, now_) ==
    AllowInBucket(self, key, now_,
                  CurrentBucket(self._buckets, key, now_, self.window_seconds))

----------------------------------------------------------------------------
(* TTLCache *)

\* CacheEntry(value=..., expires_at=...)
CacheEntry(value, expires_at) == [value |-> value, expires_at |-> expires_at]

\* TTLCache(ttl_seconds, max_entries): _store is a dict, key -> entry
TTLCache(ttl_seconds, max_entries) ==
    [ttl_seconds |-> ttl_seconds, max_entries |-> max_entries, _store |-> <<>>]

\* dict.pop(key, None)
Pop(d, k) == SelectSeq(d, LAMBDA e : e.k # k)

\* a get that still returns the value at the time expires_at
get_ExpiresLate(self, key, now_) ==
    IF ~HasKey(self._store, key) THEN [self |-> self, ret |-> NoneV]
    ELSE IF now_ > Get(self._store, key).expires_at
    THEN [self |-> [self EXCEPT !._store = Pop(@, key)], ret |-> NoneV]
    ELSE [self |-> self, ret |-> Get(self._store, key).value]

\* TTLCache.get(key) at the time now_: the object after the call and the
\* value returned
get(self, key, now_) ==
    IF ~HasKey(self._store, key) THEN [self |-> self, ret |-> NoneV]
    ELSE IF now_ >= Get(self._store, key).expires_at
    THEN [self |-> [self EXCEPT !._store = Pop(@, key)], ret |-> NoneV]
    ELSE [self |-> self, ret |-> Get(self._store, key).value]

\* the store after "if len(self._store) >= self.max_entries: pop the first
\* key", for a store that has a first key
StoreWithRoom(store, max_entries) ==
    IF Len(store) >= max_entries THEN Pop(store, store[1].k) ELSE store

\* the call from the assignment of the entry on
SetInStore(self, key, value, now_, store) ==
    [ self |-> [self EXCEPT !._store =
                   Put(store, key, CacheEntry(value, now_ + self.ttl_seconds))],
      ret  |-> NoneV ]

\* TTLCache.set(key, value) at the time now_: next(iter({})) raises
\* StopIteration
set(self, key, value, now_) ==
    IF Len(self._store) >= self.max_entries /\ self._store = <<>>
    THEN [self |-> self, ret |-> Raise("StopIteration")]
    ELSE SetInStore(self, key, value, now_,
                    StoreWithRoom(self._store, self.max_entries))

----------------------------------------------------------------------------
(* The three operations at rest *)

PathIdle ==
    /\ rp_data = NoneV
    /\ rp_path = NoneV
    /\ rp_out = NoneV
    /\ rp_pc = "idle"

ScoreIdle ==
    /\ listings = <<>>
    /\ config = Dict(<<>>)
    /\ filters = Dict(<<>>)
    /\ selected_order = Dict(<<>>)
    /\ section_order = NoneV
    /\ heap = <<>>
    /\ result = NoneV
    /\ pc = "idle"

PriorityIdle ==
    /\ bp_section_order = <<>>
    /\ bp_selected_order = Dict(<<>>)
    /\ bp_range_keys = <<>>
    /\ bp_out = NoneV
    /\ bp_pc = "idle"

\* no rate limiter and no cache, the clock at rest
ServicesIdle ==
    /\ now = 0
    /\ rate_limiter = NoneV
    /\ rl_log = <<>>
    /\ response_cache = NoneV
    /\ cache_log = NoneV

----------------------------------------------------------------------------
(* The path resolver called on its own *)

\* the longest path of the resolver's inputs, in segments
MaxPathSegments == 2

cC == <<"c">>

cS == <<"s">>

kC == Str(cC)

kS == Str(cS)

PathSegments ==
    { cC, cS, <<"s","[","0","]">>, <<"s","[","1","]">>, <<"s","\\","d">>, <<>> }

RECURSIVE PathsOf(_)
\* the dotted paths of exactly n segments
PathsOf(n) ==
    IF n = 1 THEN PathSegments
    ELSE { q \o <<".">> \o seg : q \in PathsOf(n - 1), seg \in PathSegments }

PathInputs ==
    {NoneV} \cup { Str(q) : q \in UNION { PathsOf(n) : n \in 1..MaxPathSegments } }

DataInputs ==
    { Dict(<<KV(kC, Dict(<<KV(kS, List(<<Str(<<"x">>), Str(<<"y">>)>>))>>))>>),
      Dict(<<KV(kC, Dict(<<KV(kS, List(<<>>))>>))>>),
      Dict(<<KV(kC, Dict(<<KV(kS, Str(<<"x">>))>>))>>),
      Dict(<<KV(kC, NoneV), KV(kS, List(<<Num(7)>>))>>),
      Dict(<<KV(kC, List(<<Dict(<<KV(kS, Str(<<"x">>))>>), Str(<<"y">>)>>))>>),
      Dict(<<KV(Str(<<"s","[","0","]">>), Num(1)), KV(Str(<<"s","\\","d">>), Num(2))>>),
      Dict(<<>>) }

InitPath ==
    /\ rp_data \in DataInputs
    /\ rp_path \in PathInputs
    /\ rp_out = NoneV
    /\ rp_pc = "call"
    /\ ScoreIdle
    /\ PriorityIdle
    /\ ServicesIdle

ResolvePath ==
    /\ rp_pc = "call"
    /\ rp_out' = resolve_path(rp_data, rp_path)
    /\ rp_pc' = "done"
    /\ UNCHANGED <<rp_data, rp_path>>
    /\ UNCHANGED score_vars
    /\ UNCHANGED bp_vars
    /\ UNCHANGED service_vars

NextPath == ResolvePath

SpecPath == InitPath /\ [][NextPath]_vars

----------------------------------------------------------------------------
(* score_listings called on a catalog *)

\* the longest list of listings
MaxItems == 3

kA == Str(<<"a">>)

kB == Str(<<"b">>)

kP == Str(<<"p">>)

kQ == Str(<<"q">>)

vX == Str(<<"x">>)

vY == Str(<<"y">>)

vU == Str(<<"u">>)

FilterSpec(key, type, path) ==
    Dict(<<KV(Str(s_key), key), KV(Str(s_type), Str(type)), KV(Str(s_path), path)>>)

\* the item records the listings are drawn from, by object id
ItemPool ==
    << Dict(<<KV(kA, vX), KV(kP, Num(100))>>),
       Dict(<<KV(kA, vY), KV(kB, vU), KV(kP, Num(150))>>),
       Dict(<<KV(kA, Str(<<" ","X">>)), KV(Str(<<"n","o","t","e","s">>), vY)>>),
       Dict(<<KV(kA, List(<<vY, vX, Str(<<" ","X">>)>>)), KV(kP, Str(<<"n","/","a">>))>>) >>

RECURSIVE SeqsOver(_, _)
\* the sequences of at most n elements of S
SeqsOver(S, n) ==
    IF n = 0 THEN {<<>>}
    ELSE { <<>> } \cup { <<x>> \o q : x \in S, q \in SeqsOver(S, n - 1) }

RECURSIVE SeqsUpTo(_, _)
\* the sequences of at most n elements of S, no element twice
SeqsUpTo(S, n) ==
    IF n = 0 THEN {<<>>}
    ELSE LET shorter == SeqsUpTo(S, n - 1)
         IN  shorter \cup UNION { { Append(q, x) : x \in S \ { q[i] : i \in 1..Len(q) } } :
                                  q \in shorter }

ConfigInputs ==
    { Dict(<<KV(Str(s_filters),
                List(<<FilterSpec(kA, s_checkboxes, kA),
                       FilterSpec(kB, s_select, kB),
                       FilterSpec(kP, s_range, kP)>>))>>),
      Dict(<<KV(Str(s_filters),
                List(<<FilterSpec(kP, s_range, kP),
                       Dict(<<KV(Str(s_key), kQ), KV(Str(s_type), Str(s_text))>>),
                       FilterSpec(kA, s_scalar, kA)>>)),
             KV(Str(s_sections),
                List(<<Dict(<<KV(Str(s_filters), List(<<kA, kQ>>))>>),
                       Dict(<<KV(Str(s_filters), List(<<kP>>))>>)>>))>>) }

RangeValue(min, max) == Dict(<<KV(Str(s_min), min), KV(Str(s_max), max)>>)

FiltersInputs ==
    { Dict(<<>>),
      Dict(<<KV(kP, RangeValue(Num(100), Num(150)))>>),
      Dict(<<KV(kP, RangeValue(Num(150), NoneV))>>) }

SelectedOrderInputs ==
    { Dict(<<>>),
      Dict(<<KV(kA, List(<<vX, vY>>))>>),
      Dict(<<KV(kA, List(<<vY, Str(<<" ","X">>), vX>>))>>),
      Dict(<<KV(kA, List(<<vU, vY, vX>>))>>),
      Dict(<<KV(kB, List(<<vU>>)), KV(kA, List(<<vY>>))>>),
      Dict(<<KV(kQ, List(<<vY>>)), KV(kA, List(<<vX>>))>>) }

SectionOrderInputs ==
    { NoneV,
      List(<<kA, kB, kP>>),
      List(<<kP, kB, kA>>),
      List(<<kB, kQ>>) }

Init ==
    /\ heap = ItemPool
    /\ listings \in SeqsUpTo(1..Len(ItemPool), MaxItems)
    /\ config \in ConfigInputs
    /\ filters \in FiltersInputs
    /\ selected_order \in SelectedOrderInputs
    /\ section_order \in SectionOrderInputs
    /\ result = NoneV
    /\ pc = "call"
    /\ PathIdle
    /\ PriorityIdle
    /\ ServicesIdle

ScoreListings ==
    /\ pc = "call"
    /\ \E call \in {score_listings(heap, listings, config, filters,
                                   selected_order, section_order)} :
           /\ heap' = call.heap
           /\ result' = call.ret
    /\ pc' = "done"
    /\ UNCHANGED <<listings, config, filters, selected_order, section_order>>
    /\ UNCHANGED rp_vars
    /\ UNCHANGED bp_vars
    /\ UNCHANGED service_vars

Next == ScoreListings

Spec == Init /\ [][Next]_vars

----------------------------------------------------------------------------
(* score_listings on two sections of checkboxes, a before b *)

MaxSelA == 3

MaxSelB == 20

\* the value picked r-th (from 0) in section a, in section b
AVal(r) == Str(<<"a">> \o DigitsOf(r))

BVal(r) == Str(<<"b">> \o DigitsOf(r))

\* the first n values of each section, in the order they were picked
APicks(n) == [i \in 1..n |-> AVal(i - 1)]

BPicks(n) == [i \in 1..n |-> BVal(i - 1)]

\* an item whose field a holds the value picked r-th and that has no field b
ItemA(r) == Dict(<<KV(kA, AVal(r))>>)

\* an item whose field b holds the first m values picked and that has no field a
ItemB(m) == Dict(<<KV(kB, List(BPicks(m)))>>)

DominanceConfig ==
    Dict(<<KV(Str(s_filters),
              List(<<FilterSpec(kA, s_checkboxes, kA),
                     FilterSpec(kB, s_checkboxes, kB)>>))>>)

InitDominance ==
    /\ \E nA \in 1..MaxSelA, nB \in 1..MaxSelB :
          /\ selected_order = Dict(<<KV(kA, List(APicks(nA))), KV(kB, List(BPicks(nB)))>>)
          /\ \E rA \in 0..(nA - 1) :
                heap \in { <<ItemA(rA), ItemB(m)>> : m \in 1..nB }
                         \cup { <<ItemA(rA), ItemA(r)>> : r \in (0..(nA - 1)) \ {rA} }
    /\ listings \in { <<1, 2>>, <<2, 1>> }
    /\ config = DominanceConfig
    /\ filters = Dict(<<>>)
    /\ section_order = List(<<kA, kB>>)
    /\ result = NoneV
    /\ pc = "call"
    /\ PathIdle
    /\ PriorityIdle
    /\ ServicesIdle

SpecDominance == InitDominance /\ [][Next]_vars

----------------------------------------------------------------------------
(* score_listings on one range section *)

MaxBound == 3

\* the values of the field the range is on
RangeFieldValues ==
    { Num(n) : n \in 0..(MaxBound + 1) }
    \cup { NoneV, NaN, Bool(TRUE), Str(<<"2">>), Str(<<"n","/","a">>) }

RangeBounds == { NoneV } \cup { Num(n) : n \in 1..MaxBound }

RangeConfig == Dict(<<KV(Str(s_filters), List(<<FilterSpec(kP, s_range, kP)>>))>>)

InitRange ==
    /\ heap \in { <<Dict(<<KV(kP, v)>>)>> : v \in RangeFieldValues }
    /\ listings = <<1>>
    /\ config = RangeConfig
    /\ filters \in { Dict(<<KV(kP, RangeValue(min, max))>>) :
                     min \in RangeBounds, max \in RangeBounds }
    /\ selected_order = Dict(<<>>)
    /\ section_order \in { NoneV, List(<<kP>>) }
    /\ result = NoneV
    /\ pc = "call"
    /\ PathIdle
    /\ PriorityIdle
    /\ ServicesIdle

SpecRange == InitRange /\ [][Next]_vars

----------------------------------------------------------------------------
(* score_listings on an item whose range field is malformed *)

\* what the range field of a malformed item holds; Dict(<<>>) is an item
\* without the field
MalformedItems ==
    { Dict(<<>>) }
    \cup { Dict(<<KV(kP, v)>>) :
           v \in { NoneV, Str(<<"n","/","a">>), List(<<Num(2)>>),
                   Dict(<<KV(kA, Num(2))>>), BigInt } }

InitMalformed ==
    /\ heap \in { <<item, Dict(<<KV(kP, Num(2))>>)>> : item \in MalformedItems }
    /\ listings \in { <<1, 2>>, <<2, 1>> }
    /\ config = RangeConfig
    /\ filters \in { Dict(<<KV(kP, RangeValue(min, max))>>) :
                     min \in RangeBounds \cup {BigInt}, max \in RangeBounds }
    /\ selected_order = Dict(<<>>)
    /\ section_order \in { NoneV, List(<<kP>>) }
    /\ result = NoneV
    /\ pc = "call"
    /\ PathIdle
    /\ PriorityIdle
    /\ ServicesIdle

SpecMalformed == InitMalformed /\ [][Next]_vars

----------------------------------------------------------------------------
(* score_listings without a section order or without a selection order *)

MaxListed == 2

\* a config that declares sections and no filters
SectionsOnlyConfig ==
    Dict(<<KV(Str(s_sections), List(<<Dict(<<KV(Str(s_filters), List(<<kA, kP>>))>>)>>))>>)

\* a config that declares its filters and no sections
FiltersOnlyConfig ==
    Dict(<<KV(Str(s_filters),
              List(<<FilterSpec(kA, s_checkboxes, kA),
                     FilterSpec(kB, s_select, kB),
                     FilterSpec(kP, s_range, kP)>>))>>)

\* a config whose sections name two of its three filters, a key that no
\* filter declares, and hold an entry that is no dict
GroupedConfig ==
    Dict(<<KV(Str(s_filters),
              List(<<FilterSpec(kA, s_checkboxes, kA),
                     FilterSpec(kB, s_select, kB),
                     FilterSpec(kP, s_range, kP)>>)),
           KV(Str(s_sections),
              List(<<Dict(<<KV(Str(s_filters), List(<<kP, kQ>>))>>),
                     kB,
                     Dict(<<KV(Str(s_filters), List(<<kA>>))>>)>>))>>)

InitNoSections ==
    /\ heap = ItemPool
    /\ listings \in SeqsUpTo(1..Len(ItemPool), MaxListed)
    /\ config \in { Dict(<<>>), SectionsOnlyConfig, FiltersOnlyConfig, GroupedConfig }
    /\ filters \in FiltersInputs
    /\ selected_order \in { Dict(<<>>), Dict(<<KV(kA, List(<<vX, vY>>))>>) }
    /\ section_order \in { NoneV, List(<<>>), List(<<kA, kB, kP>>) }
    /\ result = NoneV
    /\ pc = "call"
    /\ PathIdle
    /\ PriorityIdle
    /\ ServicesIdle

SpecNoSections == InitNoSections /\ [][Next]_vars

----------------------------------------------------------------------------
(* score_listings with two range filters *)

\* the items: a number in both range fields, in one of them, and a str
RangedItems ==
    << Dict(<<KV(kP, Num(1)), KV(kQ, Num(3)), KV(kA, vX)>>),
       Dict(<<KV(kP, Num(2)), KV(kQ, Num(2))>>),
       Dict(<<KV(kQ, Num(2)), KV(kP, Str(<<"n","/","a">>)), KV(kA, vX)>>) >>

TwoRangesConfig ==
    Dict(<<KV(Str(s_filters),
              List(<<FilterSpec(kA, s_checkboxes, kA),
                     FilterSpec(kP, s_range, kP),
                     FilterSpec(kQ, s_range, kQ)>>))>>)

\* the bounds set on p and on q, each range set or not
TwoRangesFilters ==
    { Dict(p \o q) :
        p \in { <<>>, <<KV(kP, RangeValue(Num(1), Num(2)))>>,
                <<KV(kP, RangeValue(Num(2), NoneV))>> },
        q \in { <<>>, <<KV(kQ, RangeValue(NoneV, Num(2)))>>,
                <<KV(kQ, RangeValue(Num(2), Num(3)))>> } }

InitTwoRanges ==
    /\ heap = RangedItems
    /\ listings \in SeqsUpTo(1..Len(RangedItems), MaxListed)
    /\ config = TwoRangesConfig
    /\ filters \in TwoRangesFilters
    /\ selected_order \in { Dict(<<>>), Dict(<<KV(kA, List(<<vX>>))>>) }
    /\ section_order \in { NoneV, List(<<kQ, kA>>), List(<<kP, kQ, kA>>) }
    /\ result = NoneV
    /\ pc = "call"
    /\ PathIdle
    /\ PriorityIdle
    /\ ServicesIdle

SpecTwoRanges == InitTwoRanges /\ [][Next]_vars

----------------------------------------------------------------------------
(* score_listings with search sections *)

kT == Str(<<"t">>)

\* the key of a search entry: SEARCH_TERM_ITEM_PREFIX and a number
kSearch == Str(SEARCH_TERM_ITEM_PREFIX \o <<"1">>)

kNotes == Str(<<"n","o","t","e","s">>)

\* the items: notes with a tag in them, a field t that the haystack does not
\* read, and an item without any text field
SearchItems ==
    << Dict(<<KV(kNotes, Str(<<"R","e","<","i",">","o","x">>)),
              KV(kT, Str(<<"z","e","d">>)), KV(kA, vX)>>),
       Dict(<<KV(kT, Str(<<"o","x">>)), KV(kNotes, Str(<<"Z","e","d">>)), KV(kA, vY)>>),
       Dict(<<KV(kA, vX), KV(kT, Str(<<"o","x">>))>>) >>

\* a text filter with a path, and a structured filter
SearchConfig ==
    Dict(<<KV(Str(s_filters),
              List(<<FilterSpec(kT, s_text, kT),
                     FilterSpec(kA, s_checkboxes, kA)>>))>>)

\* the terms typed in the text filter t
TermsOfT ==
    { <<>>,
      <<KV(kT, List(<<Str(<<"o","x">>)>>))>>,
      <<KV(kT, List(<<Str(<<" ","Z","e","d">>), Str(<<"o","x">>)>>))>>,
      <<KV(kT, List(<<Str(<<"i">>), Str(<<" ">>)>>))>>,
      <<KV(kT, List(<<Str(<<"r","e","o","x">>)>>))>> }

\* the terms of the search entry
TermsOfSearch ==
    { <<>>,
      <<KV(kSearch, List(<<Str(<<"z","e","d">>)>>))>>,
      <<KV(kSearch, List(<<Str(<<"O","X">>), Str(<<"o","x">>)>>))>> }

InitSearch ==
    /\ heap = SearchItems
    /\ listings \in SeqsUpTo(1..Len(SearchItems), MaxListed)
    /\ config = SearchConfig
    /\ filters = Dict(<<>>)
    /\ selected_order \in
          { Dict(t \o s \o a) :
            t \in TermsOfT, s \in TermsOfSearch,
            a \in { <<>>, <<KV(kA, List(<<vX>>))>> } }
    /\ section_order \in { List(<<kT, kA>>), List(<<kSearch, kA, kT>>), List(<<kA>>) }
    /\ result = NoneV
    /\ pc = "call"
    /\ PathIdle
    /\ PriorityIdle
    /\ ServicesIdle

SpecSearch == InitSearch /\ [][Next]_vars

----------------------------------------------------------------------------
(* score_listings with a range filter whose spec has no path *)

PathlessConfig ==
    Dict(<<KV(Str(s_filters),
              List(<<FilterSpec(kA, s_checkboxes, kA),
                     Dict(<<KV(Str(s_key), kP), KV(Str(s_type), Str(s_range))>>)>>))>>)

InitPathless ==
    /\ heap = ItemPool
    /\ listings \in SeqsUpTo(1..Len(ItemPool), MaxListed)
    /\ config = PathlessConfig
    /\ filters \in FiltersInputs
    /\ selected_order \in { Dict(<<>>), Dict(<<KV(kA, List(<<vX, vY>>))>>) }
    /\ section_order \in { NoneV, List(<<kP, kA>>), List(<<kA>>) }
    /\ result = NoneV
    /\ pc = "call"
    /\ PathIdle
    /\ PriorityIdle
    /\ ServicesIdle

SpecPathless == InitPathless /\ [][Next]_vars

----------------------------------------------------------------------------
(* _build_priority_spec called on its own *)

MaxValues == 3

\* the values a user picks in section a: two of them normalize to "x", one to ""
RawValues == { vX, Str(<<" ","X">>), vY, Str(<<" ">>) }

\* a section key that normalizes to ""
kBlank == Str(<<" ">>)

\* the section orders: b before or after a, a blank key or a section nobody
\* picked from before them or between them
SectionOrders ==
    { <<kA>>, <<kA, kB>>, <<kB, kA>>,
      <<kB, kBlank, kA>>, <<kBlank, kA, kB>>, <<kA, kQ, kB>> }

InitPriority ==
    /\ bp_section_order \in SectionOrders
    /\ bp_selected_order \in
          { Dict(<<KV(kA, List(picks))>> \o rest) :
            picks \in SeqsOver(RawValues, MaxValues),
            rest \in { <<>>, <<KV(kB, List(<<vU, vY, vX>>))>> } }
    /\ bp_range_keys \in { <<>>, <<kB>>, <<kB, kBlank>> }
    /\ bp_out = NoneV
    /\ bp_pc = "call"
    /\ PathIdle
    /\ ScoreIdle
    /\ ServicesIdle

BuildPrioritySpec ==
    /\ bp_pc = "call"
    /\ bp_out' = _build_priority_spec(bp_section_order, bp_selected_order, bp_range_keys)
    /\ bp_pc' = "done"
    /\ UNCHANGED <<bp_section_order, bp_selected_order, bp_range_keys>>
    /\ UNCHANGED rp_vars
    /\ UNCHANGED score_vars
    /\ UNCHANGED service_vars

NextPriority == BuildPrioritySpec

SpecPriority == InitPriority /\ [][NextPriority]_vars

----------------------------------------------------------------------------
(* _build_priority_spec on a section order that repeats a key *)

RepeatingOrders ==
    { <<kA, kA>>, <<kA, kB, kA>>, <<kB, kB>>, <<kB, kA>>, <<kA, kB, kB>> }

InitRepeated ==
    /\ bp_section_order \in RepeatingOrders
    /\ bp_selected_order \in
          { Dict(<<KV(kA, List(picks))>>) : picks \in SeqsOver(RawValues, MaxValues) }
    /\ bp_range_keys \in { <<>>, <<kB>> }
    /\ bp_out = NoneV
    /\ bp_pc = "call"
    /\ PathIdle
    /\ ScoreIdle
    /\ ServicesIdle

SpecRepeated == InitRepeated /\ [][NextPriority]_vars

----------------------------------------------------------------------------
(* RateLimiter.allow called for several keys as time passes *)

MaxRequests == 2

MaxWindow == 2

MaxCalls == 4

MaxTime == 3

RateKeys == { "user:1", "ip:h" }

RateIdle == rate_limiter = NoneV /\ rl_log = <<>>

CacheIdle == response_cache = NoneV /\ cache_log = NoneV

InitRate ==
    /\ now = 0
    /\ rate_limiter \in
          { RateLimiter(m, w) : m \in 0..MaxRequests, w \in 1..MaxWindow }
    /\ rl_log = <<>>
    /\ CacheIdle
    /\ PathIdle
    /\ ScoreIdle
    /\ PriorityIdle

\* time.time() returns a later time at the next call
Tick ==
    /\ now < MaxTime
    /\ now' = now + 1
    /\ UNCHANGED <<rate_limiter, rl_log, response_cache, cache_log>>
    /\ UNCHANGED rp_vars
    /\ UNCHANGED score_vars
    /\ UNCHANGED bp_vars

Allow ==
    /\ Len(rl_log) < MaxCalls
    /\ \E key \in RateKeys :
          \E call \in { allow(rate_limiter, key, now) } :
              /\ rate_limiter' = call.self
              /\ rl_log' = Append(rl_log, [key |-> key, at |-> now,
                                           allowed |-> call.ret[1],
                                           retry_in |-> call.ret[2]])
    /\ UNCHANGED <<now, response_cache, cache_log>>
    /\ UNCHANGED rp_vars
    /\ UNCHANGED score_vars
    /\ UNCHANGED bp_vars

NextRate == Tick \/ Allow

SpecRate == InitRate /\ [][NextRate]_vars

----------------------------------------------------------------------------
(* TTLCache.get and TTLCache.set called for several keys as time passes *)

MaxTtl == 2

MaxEntries == 2

MaxOps == 4

CacheKeys == { "a", "b", "c" }

\* what is known of the calls so far: their number, the last call and what
\* it returned, for each key the value and the time of its latest set and
\* the time of the set before that, and
\* for each key the number of calls in a row, up to the last, after which
\* the key was in the store
NoCalls ==
    [ calls      |-> 0,
      last       |-> NoneV,
      latest_set |-> <<>>,
      resident   |-> [k \in CacheKeys |-> 0] ]

Resident(store) ==
    [k \in CacheKeys |-> IF HasKey(store, k) THEN cache_log.resident[k] + 1 ELSE 0]

\* the record of a set of key at the time now: before is the time of the
\* set of the same key before it, -1 when there is none
LatestSet(key, value) ==
    [ value  |-> value,
      at     |-> now,
      before |-> IF HasKey(cache_log.latest_set, key)
                 THEN Get(cache_log.latest_set, key).at ELSE -1 ]

InitCache ==
    /\ now = 0
    /\ response_cache \in
          { TTLCache(ttl, n) : ttl \in 1..MaxTtl, n \in 1..MaxEntries }
    /\ cache_log = NoCalls
    /\ RateIdle
    /\ PathIdle
    /\ ScoreIdle
    /\ PriorityIdle

CacheGet ==
    /\ cache_log.calls < MaxOps
    /\ \E key \in CacheKeys :
          \E call \in { get(response_cache, key, now) } :
              /\ response_cache' = call.self
              /\ cache_log' =
                     [cache_log EXCEPT
                         !.calls = @ + 1,
                         !.last = [op |-> "get", key |-> key, at |-> now, ret |-> call.ret],
                         !.resident = Resident(call.self._store)]
    /\ UNCHANGED <<now, rate_limiter, rl_log>>
    /\ UNCHANGED rp_vars
    /\ UNCHANGED score_vars
    /\ UNCHANGED bp_vars

\* the value set is a new one at each call
CacheSet ==
    /\ cache_log.calls < MaxOps
    /\ \E key \in CacheKeys :
          \E call \in { set(response_cache, key, Num(cache_log.calls + 1), now) } :
              /\ response_cache' = call.self
              /\ cache_log' =
                     [cache_log EXCEPT
                         !.calls = @ + 1,
                         !.last = [op |-> "set", key |-> key, at |-> now, ret |-> call.ret],
                         !.latest_set = Put(@, key, LatestSet(key, Num(cache_log.calls + 1))),
                         !.resident = Resident(call.self._store)]
    /\ UNCHANGED <<now, rate_limiter, rl_log>>
    /\ UNCHANGED rp_vars
    /\ UNCHANGED score_vars
    /\ UNCHANGED bp_vars

NextCache == Tick \/ CacheGet \/ CacheSet

SpecCache == InitCache /\ [][NextCache]_vars

----------------------------------------------------------------------------
(* Properties of the path resolver *)

\* the segment reads key[i]: a non-empty key, then digits in brackets
IndexedAt(seg, i) ==
    /\ i > 1
    /\ i + 1 < Len(seg)
    /\ seg[i] = "["
    /\ seg[Len(seg)] = "]"
    /\ \A j \in (i + 1)..(Len(seg) - 1) : IsDigit(seg[j])

IsIndexedSegment(seg) == \E i \in 1..Len(seg) : IndexedAt(seg, i)

IndexedKey(seg) == SubSeq(seg, 1, (CHOOSE i \in 1..Len(seg) : IndexedAt(seg, i)) - 1)

IndexedIndex(seg) ==
    NatOf(SubSeq(seg, (CHOOSE i \in 1..Len(seg) : IndexedAt(seg, i)) + 1, Len(seg) - 1))

RECURSIVE LookUpKeys(_, _)
\* the value reached from data by looking up the keys one after the other
LookUpKeys(data, keys) ==
    IF keys = <<>> THEN data
    ELSE IF data.t = "dict" THEN LookUpKeys(Get(data.d, Str(keys[1])), Tail(keys))
    ELSE NoneV

\* C10: for a path whose last segment reads key[i] (the segments before it
\* being plain keys), resolve_path looks up key and returns element i of the
\* sequence found there, whenever that sequence has an element i.
C10_IndexedSegmentReturnsElement ==
    (rp_pc = "done" /\ rp_path.t = "str" /\ rp_path.s # <<>>) =>
        LET segs == SplitDots(rp_path.s)
            n    == Len(segs)
            last == segs[n]
        IN  (/\ IsIndexedSegment(last)
             /\ \A j \in 1..(n - 1) : ~IsIndexedSegment(segs[j])) =>
                LET found == LookUpKeys(rp_data,
                                 SubSeq(segs, 1, n - 1) \o <<IndexedKey(last)>>)
                    idx   == IndexedIndex(last)
                IN  (found.t = "list" /\ idx < Len(found.l)) =>
                        rp_out = found.l[idx + 1]

\* C11: resolve_path is total: whatever the data and the path, the call
\* returns a value (None on a missing key, a None on the way, an index out of
\* range, a type mismatch, an empty or None path) and never raises.
C11_NeverRaises == rp_pc = "done" => ~IsRaise(rp_out)

----------------------------------------------------------------------------
(* Properties of score_listings *)

Returned == pc = "done" /\ result.t = "return"

\* the _mcda block of the i-th returned item and its fields
ResultBlock(i) == Get(heap[result.items[i]].d, Str(s_mcda))

ResultScore(i) == Get(ResultBlock(i).d, Str(s_derived_score)).n

ResultIndex(i) == Get(ResultBlock(i).d, Str(s_index)).n

\* C1: when the returned totalSelectedCount is > 0, the returned list is in
\* descending order of _mcda.derived_score, and items of equal derived_score
\* are in increasing order of their input position _mcda.index.
C1_SortedByScoreThenIndex ==
    (Returned /\ result.count > 0) =>
        \A i, j \in 1..Len(result.items) :
            i < j => \/ ResultScore(i) > ResultScore(j)
                     \/ (ResultScore(i) = ResultScore(j) /\ ResultIndex(i) < ResultIndex(j))

\* a sorted result with a tie, a strict descent and an item moved by the sort
C1_Witness ==
    /\ Returned
    /\ result.count > 0
    /\ \E i, j \in 1..Len(result.items) : i < j /\ ResultScore(i) = ResultScore(j)
    /\ \E i, j \in 1..Len(result.items) : i < j /\ ResultScore(i) > ResultScore(j)
    /\ \E i \in 1..Len(result.items) : ResultIndex(i) # i - 1

\* no value of the filters argument holds a numeric min or max
NoRangeBoundSet ==
    \A i \in 1..Len(filters.d) :
        filters.d[i].v.t = "dict" =>
            /\ Get(filters.d[i].v.d, Str(s_min)).t \notin {"num", "bool", "nan"}
            /\ Get(filters.d[i].v.d, Str(s_max)).t \notin {"num", "bool", "nan"}

\* C2: when selected_order is empty and no range filter has a bound set, the
\* call returns the items in input order with totalSelectedCount 0, and every
\* item carries an _mcda block whose derived_score is 0.
C2_NoSelectionIdentity ==
    (pc = "done" /\ selected_order = Dict(<<>>) /\ NoRangeBoundSet) =>
        /\ result.t = "return"
        /\ result.count = 0
        /\ Len(result.items) = Len(listings)
        /\ \A i \in 1..Len(result.items) :
              /\ ResultIndex(i) = i - 1
              /\ ResultScore(i) = 0
              /\ heap[result.items[i]] =
                     Dict(Put(heap[listings[i]].d, Str(s_mcda), ResultBlock(i)))

C2_Witness ==
    /\ Returned
    /\ selected_order = Dict(<<>>)
    /\ NoRangeBoundSet
    /\ section_order # NoneV
    /\ Len(result.items) >= 2

\* C8: a call changes none of its arguments: the listings list, every item
\* record of it, config, filters, selected_order and section_order are after
\* the call what they were before it, and every returned item is a new object,
\* the input item with the _mcda block added.
C8_InputsUnchanged ==
    [][ (pc = "call" /\ pc' = "done") =>
            /\ listings' = listings
            /\ config' = config
            /\ filters' = filters
            /\ selected_order' = selected_order
            /\ section_order' = section_order
            /\ \A id \in 1..Len(heap) : heap'[id] = heap[id]
            /\ result'.t = "return" =>
                   \A i \in 1..Len(result'.items) :
                       /\ result'.items[i] > Len(heap)
                       /\ \E n \in 1..Len(listings) :
                              heap'[result'.items[i]] =
                                  Dict(Put(heap[listings[n]].d, Str(s_mcda),
                                           Get(heap'[result'.items[i]].d, Str(s_mcda))))
      ]_vars

\* a call that scored and sorted two or more items
C8_Witness ==
    /\ Returned
    /\ result.count > 0
    /\ Len(result.items) >= 2
    /\ Len(heap) = Len(ItemPool) + Len(listings)

----------------------------------------------------------------------------
(* Properties of the weights *)

\* the values picked in a section, in the order they were picked
Picked(key) == Elements(Get(selected_order.d, key))

\* the i-th returned item, without its _mcda block
ResultFields(i) ==
    [n \in 1..(Len(heap[result.items[i]].d) - 1) |-> heap[result.items[i]].d[n]]

\* the i-th returned item matches one picked value of section a, the one
\* picked r-th (from 0), and nothing in section b
MatchesOnlyA(i, r) ==
    /\ r < Len(Picked(kA))
    /\ ResultFields(i) = <<KV(kA, Picked(kA)[r + 1])>>

\* the i-th returned item matches the first m values picked in section b and
\* nothing in section a
MatchesOnlyB(i, m) ==
    /\ m \in 1..Len(Picked(kB))
    /\ ResultFields(i) = <<KV(kB, List(SubSeq(Picked(kB), 1, m)))>>

\* C3: for section order [a, b], an item that matches exactly one picked value
\* of a, whatever its rank, and nothing in b has a strictly higher
\* derived_score than an item whose matches are all in b, however many.
C3_OneMatchInFirstSectionDominates ==
    Returned =>
        \A i, j \in 1..Len(result.items) :
            \A r \in 0..(MaxSelA - 1), m \in 1..MaxSelB :
                (MatchesOnlyA(i, r) /\ MatchesOnlyB(j, m)) =>
                    ResultScore(i) > ResultScore(j)

\* C4: for section order [a, b], an item that matches only the value picked
\* first in a has a strictly higher derived_score than an item that matches
\* every picked value of b and nothing in a, for every number of picked
\* values of b up to MaxSelB.
C4_FirstPickDominatesAllOfSecond ==
    Returned =>
        \A i, j \in 1..Len(result.items) :
            (MatchesOnlyA(i, 0) /\ MatchesOnlyB(j, Len(Picked(kB)))) =>
                ResultScore(i) > ResultScore(j)

\* an item on the first pick of a beside one on all MaxSelB picks of b
C4_Witness ==
    /\ Returned
    /\ Len(Picked(kB)) = MaxSelB
    /\ \E i, j \in 1..Len(result.items) :
          MatchesOnlyA(i, 0) /\ MatchesOnlyB(j, MaxSelB)

\* C5: of two items that each match one picked value of the same section and
\* nothing else, the one on the value picked first has a strictly higher
\* derived_score than the one on a value picked later, and comes before it
\* in the output.
C5_EarlierPickRanksHigher ==
    Returned =>
        \A i, j \in 1..Len(result.items) :
            \A r \in 1..(MaxSelA - 1) :
                (MatchesOnlyA(i, 0) /\ MatchesOnlyA(j, r)) =>
                    /\ ResultScore(i) > ResultScore(j)
                    /\ i < j

\* the item on the later pick came first in the input and was moved back
C5_Witness ==
    /\ Returned
    /\ \E i, j \in 1..Len(result.items) :
          /\ MatchesOnlyA(i, 0)
          /\ MatchesOnlyA(j, MaxSelA - 1)
          /\ ResultIndex(j) < ResultIndex(i)

----------------------------------------------------------------------------
(* Properties of the range matching *)

\* the value of the item's field p and the bounds of the range on p
FieldP == Get(heap[listings[1]].d, kP)

MinP == Get(Get(filters.d, kP).d, Str(s_min))

MaxP == Get(Get(filters.d, kP).d, Str(s_max))

ResultRangeMatches(i) == Get(ResultBlock(i).d, Str(s_range_matches)).n

\* C6: with a bound set on the range, an item whose field is the number v
\* counts as a range match if and only if (min is absent or v >= min) and
\* (max is absent or v <= max); v = min and v = max match.
C6_ClosedInterval ==
    (Returned /\ FieldP.t = "num" /\ (MinP.t = "num" \/ MaxP.t = "num")) =>
        (ResultRangeMatches(1) = 1) <=>
            /\ (MinP.t = "none" \/ FieldP.n >= MinP.n)
            /\ (MaxP.t = "none" \/ FieldP.n <= MaxP.n)

\* a value on the lower bound of a range with two different bounds matched
C6_Witness ==
    /\ Returned
    /\ FieldP.t = "num"
    /\ MinP.t = "num"
    /\ MaxP.t = "num"
    /\ FieldP.n = MinP.n
    /\ MinP.n < MaxP.n
    /\ ResultRangeMatches(1) = 1

----------------------------------------------------------------------------
(* Properties of the priority spec *)

\* the values picked in section a, and what trim + lowercase makes of each
PickedA == Elements(Get(bp_selected_order.d, kA))

Trimmed(i) == Lower(Strip(PickedA[i].s))

\* the positions of PickedA whose value is not blank and was not seen before
FirstSeen ==
    { i \in 1..Len(PickedA) :
        Trimmed(i) # <<>> /\ \A j \in 1..(i - 1) : Trimmed(j) # Trimmed(i) }

\* the number of distinct values picked before position i
RankOf(i) == Cardinality({ j \in FirstSeen : j < i })

TokenA(i) == <<"a", ":">> \o Trimmed(i)

\* selected_values.get("a") or [] of the priority spec that was built
ValuesOfA ==
    IF HasKey(bp_out.selected_values, kA) THEN Get(bp_out.selected_values, kA) ELSE <<>>

\* what a section other than a adds to total_selected_count
CountOfB ==
    IF \E n \in 1..Len(bp_section_order) : bp_section_order[n] = kB
    THEN IF HasKey(bp_selected_order.d, kB)
         THEN Len(Elements(Get(bp_selected_order.d, kB)))
         ELSE IF \E n \in 1..Len(bp_range_keys) : bp_range_keys[n] = kB THEN 1 ELSE 0
    ELSE 0

\* C7: the values of a section that trim + lowercase to the same string give
\* one token, counted once in total_selected_count, with the weight of the
\* rank of the first of them; the distinct values take the ranks 0, 1, 2, ...
\* in the order they are first seen.
C7_RepeatsCountOnceAtFirstRank ==
    bp_pc = "done" =>
        /\ Len(ValuesOfA) = Cardinality(FirstSeen)
        /\ \A i \in FirstSeen :
              /\ ValuesOfA[RankOf(i) + 1] = Trimmed(i)
              /\ TokenA(i) \in bp_out.selected_tokens
              /\ Get(bp_out.token_weights, TokenA(i)) =
                     FloatMul(Get(bp_out.section_weights, kA),
                              canonical_value_weight(RankOf(i)))
        /\ Cardinality({ t \in bp_out.selected_tokens : t[1] = "a" }) =
               Cardinality(FirstSeen)
        /\ bp_out.total_selected_count = Cardinality(FirstSeen) + CountOfB

\* a value picked twice, in two spellings, and then another value
C7_Witness ==
    /\ bp_pc = "done"
    /\ \E i, j, k \in 1..Len(PickedA) :
          /\ i < j
          /\ j < k
          /\ PickedA[i] # PickedA[j]
          /\ Trimmed(i) = Trimmed(j)
          /\ k \in FirstSeen
          /\ RankOf(k) = 1

\* the values picked in the section with key k, [] if none were
PickedOf(k) ==
    IF HasKey(bp_selected_order.d, k) THEN Elements(Get(bp_selected_order.d, k)) ELSE <<>>

TrimmedOf(k, i) == Lower(Strip(PickedOf(k)[i].s))

\* the positions of PickedOf(k) whose value is not blank and was not seen before
FirstSeenOf(k) ==
    { i \in 1..Len(PickedOf(k)) :
        TrimmedOf(k, i) # <<>> /\ \A j \in 1..(i - 1) : TrimmedOf(k, j) # TrimmedOf(k, i) }

\* the in-section rank of the value at position i
RankIn(k, i) == Cardinality({ j \in FirstSeenOf(k) : j < i })

TokenOf(k, i) == k.s \o <<":">> \o TrimmedOf(k, i)

\* the positions of the section order, from 1
Positions == 1..Len(bp_section_order)

\* the tokens of the sections of the section order, as (position, pick) pairs
PickedTokens ==
    { <<n, i>> \in Positions \X (1..MaxValues) : i \in FirstSeenOf(bp_section_order[n]) }

\* C14: under DECAY = 0.65 and threshold 0.5 a selected token is in
\* high_priority_tokens if and only if its in-section rank is 0.
C14_HighPriorityIffRankZero ==
    bp_pc = "done" =>
        \A p \in PickedTokens :
            /\ TokenOf(bp_section_order[p[1]], p[2]) \in bp_out.selected_tokens
            /\ TokenOf(bp_section_order[p[1]], p[2]) \in bp_out.high_priority_tokens
                   <=> RankIn(bp_section_order[p[1]], p[2]) = 0

\* C14, amended: under DECAY = 0.65 and threshold 0.5 a selected token is in
\* high_priority_tokens if and only if its in-section rank is 0 or 1
\* (0.65 >= 0.5 > 0.4225); tokens of rank >= 2 are never high priority.
C14_HighPriorityIffRankAtMostOne ==
    bp_pc = "done" =>
        \A p \in PickedTokens :
            /\ TokenOf(bp_section_order[p[1]], p[2]) \in bp_out.selected_tokens
            /\ TokenOf(bp_section_order[p[1]], p[2]) \in bp_out.high_priority_tokens
                   <=> RankIn(bp_section_order[p[1]], p[2]) <= 1

\* a section with picks of rank 0, 1 and 2
C14_Witness ==
    /\ bp_pc = "done"
    /\ \E p \in PickedTokens :
          /\ RankIn(bp_section_order[p[1]], p[2]) = 2
          /\ TokenOf(bp_section_order[p[1]], p[2]) \in bp_out.selected_tokens

\* the key at position n is among the range keys
IsRangeKey(n) == \E r \in 1..Len(bp_range_keys) : bp_range_keys[r] = bp_section_order[n]

\* the section at position n has a key, and a value picked or a range
ActiveAt(n) ==
    /\ Lower(Strip(bp_section_order[n].s)) # <<>>
    /\ (FirstSeenOf(bp_section_order[n]) # {} \/ IsRangeKey(n))

\* C15: the weight of an active section at position index (from 0) of a
\* section order of length N is 5^max(0, N - index - 1), the positions and N
\* being those of the whole section order, inactive and blank entries
\* included; an inactive earlier entry leaves the later weights as they are.
C15_WeightFromPositionInFullOrder ==
    bp_pc = "done" =>
        \A n \in Positions :
            ActiveAt(n) =>
                /\ HasKey(bp_out.section_weights, bp_section_order[n])
                /\ Get(bp_out.section_weights, bp_section_order[n]) =
                       (5 ^ (Len(bp_section_order) - n)) * Scale

\* an inactive entry, then an active section that is not the last one
C15_Witness ==
    /\ bp_pc = "done"
    /\ \E m, n \in Positions :
          /\ m < n
          /\ n < Len(bp_section_order)
          /\ ~ActiveAt(m)
          /\ ActiveAt(n)
          /\ ActiveAt(n + 1)

\* token_weights[token] of the pick p, a (position, pick) pair
WeightOfPick(p) == Get(bp_out.token_weights, TokenOf(bp_section_order[p[1]], p[2]))

RankOfPick(p) == RankIn(bp_section_order[p[1]], p[2])

\* 0.65 ^ rank
DecayPower(rank) == (65 ^ rank) * (Scale \div (100 ^ rank))

\* C16: every entry of token_weights is section_weights[section] x DECAY^rank
\* and is > 0; of two tokens of equal rank the one of the earlier section
\* weighs more, and of two tokens of one section the one of the lower rank
\* weighs more.
C16_TokenWeightsDecrease ==
    bp_pc = "done" =>
        /\ \A p \in PickedTokens :
              /\ HasKey(bp_out.token_weights, TokenOf(bp_section_order[p[1]], p[2]))
              /\ WeightOfPick(p) =
                     FloatMul(Get(bp_out.section_weights, bp_section_order[p[1]]),
                              DecayPower(RankOfPick(p)))
              /\ WeightOfPick(p) > 0
        /\ Len(bp_out.token_weights) = Cardinality(PickedTokens)
        /\ \A p, q \in PickedTokens :
              /\ (p[1] < q[1] /\ RankOfPick(p) = RankOfPick(q)) =>
                     WeightOfPick(p) > WeightOfPick(q)
              /\ (p[1] = q[1] /\ RankOfPick(p) < RankOfPick(q)) =>
                     WeightOfPick(p) > WeightOfPick(q)

\* two sections with picks of the same rank, one of them with two ranks
C16_Witness ==
    /\ bp_pc = "done"
    /\ \E p, q, r \in PickedTokens :
          /\ p[1] < q[1]
          /\ RankOfPick(p) = 1
          /\ RankOfPick(q) = 1
          /\ r[1] = q[1]
          /\ RankOfPick(r) = 2

\* what the section at position n adds to total_selected_count
CountAt(n) ==
    IF ~ActiveAt(n) THEN 0
    ELSE IF FirstSeenOf(bp_section_order[n]) # {}
         THEN Cardinality(FirstSeenOf(bp_section_order[n]))
         ELSE 1

RECURSIVE CountUpTo(_)
\* the sum of CountAt over the positions 1..n
CountUpTo(n) == IF n = 0 THEN 0 ELSE CountUpTo(n - 1) + CountAt(n)

\* C17: total_selected_count is the sum, over the active sections, of the
\* number of distinct normalized values picked in the section if it has any,
\* and of 1 if the section is active through a range filter only.
C17_TotalSelectedCount ==
    bp_pc = "done" =>
        bp_out.total_selected_count = CountUpTo(Len(bp_section_order))

\* a section with a repeated pick, and a section active through its range only
C17_Witness ==
    /\ bp_pc = "done"
    /\ \E m, n \in Positions :
          /\ ActiveAt(m)
          /\ Cardinality(FirstSeenOf(bp_section_order[m])) > 1
          /\ Cardinality(FirstSeenOf(bp_section_order[m])) < Len(PickedOf(bp_section_order[m]))
          /\ ActiveAt(n)
          /\ FirstSeenOf(bp_section_order[n]) = {}

\* the tokens of the priority spec that belong to the section at position n
TokensAt(n) ==
    { t \in bp_out.selected_tokens \cup { bp_out.token_weights[i].k : i \in 1..Len(bp_out.token_weights) } :
        StartsWith(t, bp_section_order[n].s \o <<":">>) }

\* C18: a key of the section order is in sections, and has a section_weights
\* entry, if and only if it normalizes to a non-empty string and has a
\* non-empty normalized value picked or is among the range keys; any other
\* entry gives no weight, no token and nothing to total_selected_count.
C18_ActiveSectionsOnly ==
    bp_pc = "done" =>
        /\ bp_out.sections = SubSequence(bp_section_order, { n \in Positions : ActiveAt(n) })
        /\ \A n \in Positions :
              /\ HasKey(bp_out.section_weights, bp_section_order[n]) <=> ActiveAt(n)
              /\ ~ActiveAt(n) =>
                     /\ TokensAt(n) = {}
                     /\ ~HasKey(bp_out.selected_values, bp_section_order[n])
        /\ Len(bp_out.section_weights) = Cardinality({ n \in Positions : ActiveAt(n) })
        /\ bp_out.total_selected_count = CountUpTo(Len(bp_section_order))

\* a blank key that is a range key, a section whose picks are all blank, and
\* a section active through its range only
C18_Witness ==
    /\ bp_pc = "done"
    /\ \E l, m, n \in Positions :
          /\ Lower(Strip(bp_section_order[l].s)) = <<>>
          /\ IsRangeKey(l)
          /\ ~ActiveAt(m)
          /\ PickedOf(bp_section_order[m]) # <<>>
          /\ ActiveAt(n)
          /\ FirstSeenOf(bp_section_order[n]) = {}

----------------------------------------------------------------------------
(* Properties of score_listings on malformed items *)

\* the value the range field of the n-th listing holds, None if it has none
FieldOf(n) == Get(heap[listings[n]].d, kP)

\* C12: score_listings never raises for a malformed item record: an item
\* whose range field is missing, None, a non-numeric str, a list, a dict or
\* any other value that is no float is not counted as a range match, and
\* every item is in the output with an _mcda block.
C12_MalformedItemsNeverRaise ==
    (pc = "done" /\ MinP.t # "bigint") =>
        /\ result.t = "return"
        /\ Len(result.items) = Len(listings)
        /\ \A n \in 1..Len(listings) :
              \E i \in 1..Len(result.items) :
                  /\ heap[result.items[i]] =
                         Dict(Put(heap[listings[n]].d, Str(s_mcda), ResultBlock(i)))
                  /\ FieldOf(n).t # "num" => ResultRangeMatches(i) = 0

----------------------------------------------------------------------------
(* Properties of score_listings without sections or selections *)

\* the result is the input in its order, with count 0
NoOpOrdering ==
    /\ result.t = "return"
    /\ result.count = 0
    /\ Len(result.items) = Len(listings)
    /\ \A i \in 1..Len(result.items) :
          heap[result.items[i]] =
              Dict(Put(heap[listings[i]].d, Str(s_mcda), ResultBlock(i)))

\* C13: when the section order is empty or missing, or the selection order
\* is empty or missing, there is no active section: totalSelectedCount is 0
\* and the items are returned in input order.
C13_NoOrderNoActiveSection ==
    (pc = "done" /\ (~Truthy(section_order) \/ selected_order = Dict(<<>>))) =>
        NoOpOrdering

\* the config declares no filter with a key, so that an empty or missing
\* section order has nothing to fall back on
NoDeclaredFilterKey ==
    \A i \in 1..Len(ConfigFilters(config)) :
        ~(/\ ConfigFilters(config)[i].t = "dict"
          /\ Truthy(Get(ConfigFilters(config)[i].d, Str(s_key))))

\* C13, amended: when the section order is empty or missing and the config
\* declares no filter key to fall back on, or when the selection order is
\* empty and no range filter has a bound set, totalSelectedCount is 0 and
\* the items are returned in input order.
C13_NoEffectiveOrderNoActiveSection ==
    (pc = "done" /\ \/ (~Truthy(section_order) /\ NoDeclaredFilterKey)
                    \/ (selected_order = Dict(<<>>) /\ NoRangeBoundSet)) =>
        NoOpOrdering

\* values are picked and a range is set, and no section order is in effect
C13_Witness ==
    /\ Returned
    /\ ~Truthy(section_order)
    /\ config = SectionsOnlyConfig
    /\ selected_order # Dict(<<>>)
    /\ ~NoRangeBoundSet
    /\ Len(listings) = MaxListed

----------------------------------------------------------------------------
(* Properties of the counters of an item *)

\* the values the loop over the listings reads, as the call computes them
ContextOfRanges(filter_map, range_selections) ==
    ScoreContext(listings, filter_map, range_selections,
                 _build_priority_spec(
                     Elements(Or(section_order, List(_default_section_order(config)))),
                     selected_order,
                     [i \in 1..Len(range_selections) |-> range_selections[i].k]))

ContextOfFilterMap(filter_map) ==
    ContextOfRanges(filter_map, _extract_range_filters(filters, filter_map))

CallContext == ContextOfFilterMap(_build_filter_map(config))

\* item_tokens of the n-th listing
ItemTokens(ctx, n) ==
    StructuredTokens(heap[listings[n]], ctx.priority_sections).l
        \cup SearchTokens(heap[listings[n]], ctx.priority_search_sections,
                          ctx.priority_spec.selected_values)

\* the tokens of the n-th listing that are selected
Matched(ctx, n) == ItemTokens(ctx, n) \cap ctx.priority_spec.selected_tokens

\* the fields of the _mcda block of the i-th returned item
ResultTotal(i) == Get(ResultBlock(i).d, Str(s_total_matches)).n

ResultHigh(i) == Get(ResultBlock(i).d, Str(s_high_priority_matches)).n

\* the listing the i-th returned item is the copy of
Listed(i) == ResultIndex(i) + 1

RECURSIVE RangeWeight(_, _)
\* the sum of section_weights.get(key, 0.0) over a set of range keys
RangeWeight(section_weights, keys) ==
    IF keys = {} THEN 0
    ELSE LET k == CHOOSE x \in keys : TRUE
         IN  WeightOf(section_weights, k) + RangeWeight(section_weights, keys \ {k})

\* the n-th listing has a number in the field k that is within the bounds
\* set for k
InRange(n, k) ==
    /\ HasKey(filters.d, k)
    /\ Get(heap[listings[n]].d, k).t = "num"
    /\ Get(Get(filters.d, k).d, Str(s_min)).t = "num" =>
           Get(heap[listings[n]].d, k).n >= Get(Get(filters.d, k).d, Str(s_min)).n
    /\ Get(Get(filters.d, k).d, Str(s_max)).t = "num" =>
           Get(heap[listings[n]].d, k).n <= Get(Get(filters.d, k).d, Str(s_max)).n

\* the range keys whose range the n-th listing falls in
RangesHit(n) == { k \in {kP, kQ} : InRange(n, k) }

\* the counters of the i-th returned item, the range matches left aside,
\* are those of the matched tokens
TokenPart(i, matched, ranges_hit, priority_spec) ==
    /\ ResultTotal(i) - ResultRangeMatches(i) = Cardinality(matched)
    /\ ResultHigh(i) - ResultRangeMatches(i) =
           Cardinality(matched \cap priority_spec.high_priority_tokens)
    /\ ResultScore(i) - RangeWeight(priority_spec.section_weights, ranges_hit) =
           SumWeights(matched, priority_spec.token_weights)

TokenPartAll(ctx) ==
    \A i \in 1..Len(result.items) :
        TokenPart(i, Matched(ctx, Listed(i)), RangesHit(Listed(i)), ctx.priority_spec)

\* C19: for every item, leaving the range matches aside, total_matches is
\* the number of distinct tokens of the item that are selected tokens,
\* high_priority_matches the number of those that are high priority tokens,
\* and derived_score the sum of their token weights.
C19_TokenPartOfScore == Returned => TokenPartAll(CallContext)

\* the i-th returned item holds a selected value twice and has two selected
\* tokens, of which one is not high priority
TwoMatchedOneHigh(i, matched, priority_spec) ==
    /\ Cardinality(matched) = 2
    /\ Cardinality(matched \cap priority_spec.high_priority_tokens) = 1
    /\ Len(Elements(Get(heap[listings[Listed(i)]].d, kA))) = 3

C19_WitnessIn(ctx) ==
    /\ \E i \in 1..Len(result.items) :
          TwoMatchedOneHigh(i, Matched(ctx, Listed(i)), ctx.priority_spec)
    /\ \E i \in 1..Len(result.items) :
          ItemTokens(ctx, Listed(i)) \ Matched(ctx, Listed(i)) # {}

\* an item with a value held twice and two selected tokens of which one is
\* not high priority, and an item with a token that is not selected
C19_Witness == Returned /\ C19_WitnessIn(CallContext)

\* the counters of the i-th returned item are those of its matched tokens
\* and, for each range it falls in, 1 more in each count and the weight of
\* the range's section, 0.0 if the section has none
RangePart(i, matched, ranges_hit, priority_spec) ==
    /\ ResultRangeMatches(i) = Cardinality(ranges_hit)
    /\ ResultTotal(i) = Cardinality(matched) + Cardinality(ranges_hit)
    /\ ResultHigh(i) =
           Cardinality(matched \cap priority_spec.high_priority_tokens)
               + Cardinality(ranges_hit)
    /\ ResultScore(i) =
           SumWeights(matched, priority_spec.token_weights)
               + RangeWeight(priority_spec.section_weights, ranges_hit)

RangePartAll(ctx) ==
    \A i \in 1..Len(result.items) :
        RangePart(i, Matched(ctx, Listed(i)), RangesHit(Listed(i)), ctx.priority_spec)

\* every range an item falls in has an entry in section_weights
RangesHitHaveWeight(ctx) ==
    \A n \in 1..Len(listings) :
        \A k \in RangesHit(n) : HasKey(ctx.priority_spec.section_weights, k)

C20_WitnessIn(ctx) ==
    \E i \in 1..Len(result.items) :
        /\ RangesHit(Listed(i)) = {kP, kQ}
        /\ ~HasKey(ctx.priority_spec.section_weights, kP)
        /\ WeightOf(ctx.priority_spec.section_weights, kQ) > Scale
        /\ Matched(ctx, Listed(i)) # {}

----------------------------------------------------------------------------
(* Properties of the search sections *)

\* the key k is in the section order given to the call
InSectionOrder(k) == \E n \in 1..Len(section_order.l) : section_order.l[n] = k

\* the terms selected under the key k, trimmed and in lower case
TermSet(k) ==
    IF HasKey(selected_order.d, k)
    THEN { Lower(Strip(Elements(Get(selected_order.d, k))[j].s)) :
           j \in 1..Len(Elements(Get(selected_order.d, k))) }
    ELSE {}

\* the search sections in effect: the text filter and the search entry
SearchKeys == { k \in {kT, kSearch} : InSectionOrder(k) /\ TermSet(k) \ {<<>>} # {} }

\* the (section, term) pairs whose term is not empty and is in the haystack
SearchHits(haystack) ==
    { p \in UNION { { <<k, term>> : term \in TermSet(k) } : k \in SearchKeys } :
        p[2] # <<>> /\ Contains(haystack, p[2]) }

\* 1 if the structured section a is in effect and the item holds a value
\* selected in it, else 0
StructuredHit(item) ==
    IF InSectionOrder(kA) /\ Lower(Strip(Get(item.d, kA).s)) \in TermSet(kA) THEN 1 ELSE 0

\* the tokens of the search sections an item has are those of the hits
SearchTokensAre(item_tokens, hits) ==
    \A k \in {kT, kSearch} :
        \A term \in TermSet(k) \cup { Lower(Strip(Get(heap[n].d, kT).s)) : n \in 1..Len(SearchItems) } :
            (k.s \o <<":">> \o term) \in item_tokens <=> <<k, term>> \in hits

SearchPart(i, ctx) ==
    /\ SearchTokensAre(ItemTokens(ctx, Listed(i)),
                       SearchHits(build_text_search_haystack(heap[listings[Listed(i)]])))
    /\ ResultTotal(i) =
           Cardinality(SearchHits(build_text_search_haystack(heap[listings[Listed(i)]])))
               + StructuredHit(heap[listings[Listed(i)]])

SearchPartAll(ctx) == \A i \in 1..Len(result.items) : SearchPart(i, ctx)

\* C21: for an active search section (a text filter, or a key that starts
\* with search_term_item:) an item has the token "section:term" if and only
\* if the selected term is not empty and is a substring of the item's
\* haystack; the value at the path of a text filter gives no token.
C21_SearchTokenIffInHaystack == Returned => SearchPartAll(CallContext)

\* an item whose field t is a selected term that its haystack does not hold,
\* with another term that the haystack holds
C21_Witness ==
    /\ Returned
    /\ \E i \in 1..Len(result.items) :
          /\ InSectionOrder(kT)
          /\ Lower(Strip(Get(heap[listings[Listed(i)]].d, kT).s)) \in TermSet(kT)
          /\ ~Contains(build_text_search_haystack(heap[listings[Listed(i)]]),
                       Lower(Strip(Get(heap[listings[Listed(i)]].d, kT).s)))
          /\ Cardinality(SearchHits(build_text_search_haystack(heap[listings[Listed(i)]]))) = 1
    /\ \E i \in 1..Len(result.items) :
          \E p \in SearchHits(build_text_search_haystack(heap[listings[Listed(i)]])) :
              p[1] = kSearch

----------------------------------------------------------------------------
(* Properties of score_listings on a range filter without a path *)

\* the call returned what the call alt returns: the same count, and items
\* with the same entries in the same order
SameResult(alt) ==
    /\ alt.ret.t = "return"
    /\ alt.ret.count = result.count
    /\ Len(alt.ret.items) = Len(result.items)
    /\ \A i \in 1..Len(result.items) :
          alt.heap[alt.ret.items[i]] = heap[result.items[i]]

\* the call with the same arguments except filters = {}
CallUnfiltered ==
    score_listings(ItemPool, listings, config, Dict(<<>>), selected_order, section_order)

\* C22: a range filter whose spec has no path, with bounds set and its key
\* in the section order, gives no match and no score to any item, raises
\* nothing, and leaves the result what it is when the filter is not set.
C22_PathlessRangeContributesNothing ==
    pc = "done" =>
        /\ result.t = "return"
        /\ \A i \in 1..Len(result.items) : ResultRangeMatches(i) = 0
        /\ SameResult(CallUnfiltered)

----------------------------------------------------------------------------
(* Properties of the section order in effect *)

\* the keys of the filters the config declares, in the order it declares them
DeclaredKeys ==
    [ n \in 1..Len(SelectSeq(ConfigFilters(config), LAMBDA e : e.t = "dict" /\ Truthy(Get(e.d, Str(s_key))))) |->
        Get(SelectSeq(ConfigFilters(config), LAMBDA e : e.t = "dict" /\ Truthy(Get(e.d, Str(s_key))))[n].d, Str(s_key)) ]

IsDeclared(k) == \E n \in 1..Len(DeclaredKeys) : DeclaredKeys[n] = k

\* the sections of the config that are dicts
Groups ==
    SelectSeq(IF HasKey(config.d, Str(s_sections)) THEN Elements(Get(config.d, Str(s_sections))) ELSE <<>>, LAMBDA g : g.t = "dict")

RECURSIVE GroupedKeys(_)
\* the declared keys the sections from the n-th on name, section by section
GroupedKeys(n) ==
    IF n > Len(Groups) THEN <<>>
    ELSE SelectSeq(Elements(Get(Groups[n].d, Str(s_filters))), IsDeclared) \o GroupedKeys(n + 1)

\* the order derived from the config
DerivedOrder == IF GroupedKeys(1) # <<>> THEN GroupedKeys(1) ELSE DeclaredKeys

\* the config without its sections
ConfigWithoutSections == Dict(SelectSeq(config.d, LAMBDA e : e.k # Str(s_sections)))

\* the call with the section order in effect given as its argument, on a
\* config that has no sections to derive one from
CallWithOrder(order) ==
    score_listings(ItemPool, listings, ConfigWithoutSections, filters, selected_order, order)

\* C23: without a section order (None or []), the call scores by the order
\* derived from the config: the declared filter keys in their order, or, if
\* the sections of the config name a declared key, the declared keys the
\* sections name, section by section; a non-empty section order is used as
\* given, whatever the sections of the config.
C23_DefaultSectionOrder ==
    pc = "done" =>
        SameResult(CallWithOrder(IF Truthy(section_order) THEN section_order
                                 ELSE List(DerivedOrder)))

\* no section order is given, the sections of the config put the range
\* before the checkboxes, and items are ranked by it
C23_Witness ==
    /\ Returned
    /\ ~Truthy(section_order)
    /\ config = GroupedConfig
    /\ DerivedOrder = <<kP, kA>>
    /\ selected_order # Dict(<<>>)
    /\ ~NoRangeBoundSet
    /\ Len(listings) = MaxListed
    /\ ResultIndex(1) = 1

----------------------------------------------------------------------------
(* Properties of the returned list *)

ResultSelectedCount(i) == Get(ResultBlock(i).d, Str(s_total_selected_count)).n

\* C24: the returned list is a permutation of the input: it is as long as
\* the input, the _mcda.index values are 0..n-1, each once, each returned
\* item is the input item at its _mcda.index with the _mcda block put on it,
\* and every _mcda.total_selected_count is the returned count.
C24_OutputIsPermutation ==
    Returned =>
        /\ Len(result.items) = Len(listings)
        /\ { ResultIndex(i) : i \in 1..Len(result.items) } = 0..(Len(listings) - 1)
        /\ \A i \in 1..Len(result.items) :
              /\ heap[result.items[i]] =
                     Dict(Append(heap[listings[ResultIndex(i) + 1]].d,
                                 KV(Str(s_mcda), ResultBlock(i))))
              /\ ResultSelectedCount(i) = result.count

\* three items returned in an order that is not the input's
C24_Witness ==
    /\ Returned
    /\ Len(result.items) = MaxItems
    /\ result.count > 1
    /\ ResultIndex(1) = 2
    /\ ResultIndex(2) = 0

\* C25: for every scored item, _mcda.total_matches <= _mcda.total_selected_count,
\* also when a range filter with bounds is not in the section order in
\* effect and when a range section has selected values too.
C25_MatchesAtMostSelected ==
    Returned =>
        \A i \in 1..Len(result.items) : ResultTotal(i) <= ResultSelectedCount(i)

----------------------------------------------------------------------------
(* Properties of the priority spec on a repeated key *)

\* the keys of sections that have no selected values
SectionsWithoutValues ==
    { bp_out.sections[n] : n \in 1..Len(bp_out.sections) } \
        { bp_out.selected_values[n].k : n \in 1..Len(bp_out.selected_values) }

\* C26: for every section order, one that names a key more than once
\* included, total_selected_count is the number of selected tokens plus the
\* number of distinct active sections without selected values, and sections
\* holds no key twice.
C26_CountIsTokensPlusRangeOnly ==
    bp_pc = "done" =>
        /\ bp_out.total_selected_count =
               Cardinality(bp_out.selected_tokens) + Cardinality(SectionsWithoutValues)
        /\ \A m, n \in 1..Len(bp_out.sections) :
               bp_out.sections[m] = bp_out.sections[n] => m = n

----------------------------------------------------------------------------
(* Properties of the rate limiter *)

\* the bucket stored for a key, None if there is none
BucketOf(self, key) == Get(self._buckets, key)

\* the number of calls for key that were allowed in the window of its bucket
AllowedInWindow(key) ==
    Cardinality({ n \in 1..Len(rl_log) :
        /\ rl_log[n].key = key
        /\ rl_log[n].allowed
        /\ rl_log[n].at >= BucketOf(rate_limiter, key).reset_at - rate_limiter.window_seconds
        /\ rl_log[n].at < BucketOf(rate_limiter, key).reset_at })

\* at most max_requests calls are allowed in the window of a bucket
WindowBound ==
    \A key \in RateKeys :
        HasKey(rate_limiter._buckets, key) =>
            AllowedInWindow(key) <= rate_limiter.max_requests

\* the key of the call that was just made, and whether it was allowed
Called == rl_log' # rl_log

CalledKey == rl_log'[Len(rl_log')].key

CalledAllowed == rl_log'[Len(rl_log')].allowed

\* a denied call for a key that has a bucket leaves the bucket as it is
DeniedKeepsBucket ==
    (Called /\ ~CalledAllowed /\ HasKey(rate_limiter._buckets, CalledKey)) =>
        BucketOf(rate_limiter', CalledKey) = BucketOf(rate_limiter, CalledKey)

\* the first call at or after reset_at starts a window at the time of the
\* call, in which it is the only call counted
ExpiredStartsWindow ==
    (/\ Called
     /\ HasKey(rate_limiter._buckets, CalledKey)
     /\ now >= BucketOf(rate_limiter, CalledKey).reset_at) =>
        BucketOf(rate_limiter', CalledKey) =
            RateBucket(IF CalledAllowed THEN 1 ELSE 0, now + rate_limiter.window_seconds)

\* a call leaves the buckets of the other keys as they are
OtherKeysKept ==
    Called =>
        \A key \in RateKeys \ {CalledKey} :
            BucketOf(rate_limiter', key) = BucketOf(rate_limiter, key)

\* C27: as time passes, at most max_requests calls for a key are allowed
\* between the creation of its bucket and the bucket's reset_at; a denied
\* call changes neither the count nor the reset_at of the bucket; the first
\* call at or after reset_at starts a new window; a call for one key never
\* changes the bucket of another key.
C27_WindowedLimit ==
    /\ []WindowBound
    /\ [][DeniedKeepsBucket /\ ExpiredStartsWindow /\ OtherKeysKept]_vars

\* C27, amended: the same, the denied call leaving the bucket unchanged when
\* max_requests >= 1; with max_requests <= 0 every call is denied, and a
\* denied call at or after reset_at starts a new window.
C27_WindowedLimitPositive ==
    /\ []WindowBound
    /\ [][/\ (rate_limiter.max_requests >= 1 => DeniedKeepsBucket)
          /\ ExpiredStartsWindow
          /\ OtherKeysKept]_vars

\* a key was denied in a window and allowed again after it, and the other
\* key was called too
C27_Witness ==
    /\ rate_limiter # NoneV
    /\ \E i, j, k \in 1..Len(rl_log) :
          /\ i < j
          /\ rl_log[i].key = rl_log[j].key
          /\ ~rl_log[i].allowed
          /\ rl_log[j].allowed
          /\ rl_log[k].key # rl_log[i].key

----------------------------------------------------------------------------
(* Properties of the cache *)

StoredKeys(store) == { store[i].k : i \in DOMAIN store }

\* the step is a call of set or get
CacheCalled == cache_log # NoneV /\ cache_log'.calls = cache_log.calls + 1

\* the step is a call of set for a key that is not stored, on a full store
SetNewKeyOnFull ==
    /\ CacheCalled
    /\ cache_log'.last.op = "set"
    /\ ~HasKey(response_cache._store, cache_log'.last.key)
    /\ Len(response_cache._store) >= response_cache.max_entries

\* the stored key that has been in the store for the most calls in a row
IsEarliestInserted(e) ==
    /\ HasKey(response_cache._store, e)
    /\ \A o \in StoredKeys(response_cache._store) :
          cache_log.resident[o] <= cache_log.resident[e]

\* the step removes the entry of e and no other, and changes no other
EvictsOnly(e) ==
    /\ StoredKeys(response_cache'._store) =
          (StoredKeys(response_cache._store) \ {e}) \cup {cache_log'.last.key}
    /\ \A o \in StoredKeys(response_cache._store) \ {e} :
          Get(response_cache'._store, o) = Get(response_cache._store, o)

\* C28: with max_entries >= 1 the store never holds more than max_entries
\* entries, and a set of a key that is not stored, on a full store, removes
\* exactly one entry, the one that was inserted earliest
C28_BoundedFifoEviction ==
    /\ [](response_cache # NoneV =>
            (response_cache.max_entries >= 1 =>
               Len(response_cache._store) <= response_cache.max_entries))
    /\ [][SetNewKeyOnFull =>
            \E e \in CacheKeys : IsEarliestInserted(e) /\ EvictsOnly(e)]_vars

\* the last call and the latest set of its key
LastCall == cache_log.last

SetBefore(key) == HasKey(cache_log.latest_set, key)

LatestSetOf(key) == Get(cache_log.latest_set, key)

ExpiryOf(key) == LatestSetOf(key).at + response_cache.ttl_seconds

LastWasGet == cache_log # NoneV /\ LastCall # NoneV /\ LastCall.op = "get"

\* what the get returned is the value of the latest set of the key, and the
\* time of the get is before that set's time + ttl_seconds
ReturnedIsFresh ==
    LastCall.ret # NoneV =>
        /\ SetBefore(LastCall.key)
        /\ LastCall.ret = LatestSetOf(LastCall.key).value
        /\ LastCall.at < ExpiryOf(LastCall.key)

\* a get at or after the expiry of the latest set returns None and leaves
\* no entry for the key
ExpiredIsRemoved ==
    (SetBefore(LastCall.key) /\ LastCall.at >= ExpiryOf(LastCall.key)) =>
        /\ LastCall.ret = NoneV
        /\ ~HasKey(response_cache._store, LastCall.key)

\* the step is a get of a stored key before the expiry of its latest set
GetStoredBeforeExpiry ==
    /\ CacheCalled
    /\ cache_log'.last.op = "get"
    /\ HasKey(response_cache._store, cache_log'.last.key)
    /\ now < ExpiryOf(cache_log'.last.key)

\* C29: get never returns an expired value: what it returns is the value of
\* the latest set of the key and the time is before that set's time +
\* ttl_seconds; at or after that time it returns None and removes the entry;
\* a stored key gives the value of its latest set until that set's expiry,
\* whatever was set for it before
C29_GetNeverReturnsExpired ==
    /\ [](LastWasGet => ReturnedIsFresh /\ ExpiredIsRemoved)
    /\ [][GetStoredBeforeExpiry =>
            /\ cache_log'.last.ret = LatestSetOf(cache_log'.last.key).value
            /\ response_cache' = response_cache]_vars

\* a get returned the value of the second set of a key at a time when the
\* first set of that key had expired
C29_Witness ==
    /\ LastWasGet
    /\ LastCall.ret # NoneV
    /\ LatestSetOf(LastCall.key).before >= 0
    /\ LastCall.at >= LatestSetOf(LastCall.key).before + response_cache.ttl_seconds

\* the step is a set of a key that is stored
SetStoredKey ==
    /\ CacheCalled
    /\ cache_log'.last.op = "set"
    /\ HasKey(response_cache._store, cache_log'.last.key)

\* C30: a set of a key that is already stored removes no other key from the
\* store and changes no other entry, even when the store is full
C30_SetStoredKeyKeepsOthers ==
    [][SetStoredKey =>
         \A o \in StoredKeys(response_cache._store) \ {cache_log'.last.key} :
             /\ HasKey(response_cache'._store, o)
             /\ Get(response_cache'._store, o) = Get(response_cache._store, o)]_vars

====
